---- MODULE Spec2Model ----
(***************************************************************************)
(* Membercoin consensus kernel: the interest-rate table and output         *)
(* valuation (primitives/transaction.cpp), block header hashing and chain  *)
(* work (primitives/block.cpp, block.h), and the value-conservation and    *)
(* coinbase-maturity rules of block connection.                            *)
(*                                                                         *)
(* 64-bit and 256-bit machine words are kept at their width.  TLC's own    *)
(* integers are 32 bits wide, so a word is a little-endian sequence of     *)
(* 15-bit limbs without leading zero limbs (<<>> is zero).                 *)
(***************************************************************************)
EXTENDS Integers, Sequences, FiniteSets, TLC

VARIABLES
    initRate,   \* initRateTable(): loop position and the entries it wrote last
    interest,   \* the last GetInterest() call: arguments, table index, result
    chain,      \* the active chain: tip height, unspent coins, the tip's undo data
    connect,    \* the last block connection: the transaction and its outcome
    block,      \* a CBlock: the header fields and the memory-only members
    hashCall,   \* the last operation on the block and what it returned
    hashRef,    \* the first GetHash() result, with the header fields hashed
    work,       \* the last GetWorkForDifficultyBits() call
    reorg,      \* the block index and active chain of a node taking blocks one at a time
    pv,         \* parallel validation: workers, their forks, the shared cache and tip
    view,       \* the layered UTXO view: base, error catcher, in-memory cache
    startup,    \* ThreadImport: position, flags, the block index it reconsiders
    shutdown,   \* Interrupt() and Shutdown(): position, validation threads, flushes
    appinit,    \* AppInit2(): position, the rate hash, the block database load loop
    wallet,     \* the encrypted wallet: lock state, nWalletUnlockTime, the re-lock timer
    valueOut,   \* the last CTransaction::GetValueOut() call
    admission,  \* ThreadImport's wait for the transaction admission queues
    rounding    \* the thread-count rounding loop of FindBestPatternHash

vars == <<initRate, interest, chain, connect, block, hashCall, hashRef, work,
          reorg, pv, view, startup, shutdown,
          appinit, wallet, valueOut, admission, rounding>>

\* the state of sections 4.1-4.3 and 4.6, left alone by the operations below them
kernelVars == <<initRate, interest, chain, connect, block, hashCall, hashRef, work>>

\* the node-level state: chain activation, parallel validation, the layered view,
\* start-up and shutdown
nodeVars == <<reorg, pv, view, startup, shutdown>>

\* the state of initialisation, the wallet lock, GetValueOut, the admission wait
\* and the rounding loop, and the same without one of them
lateVars == <<appinit, wallet, valueOut, admission, rounding>>
besidesAppInit == <<wallet, valueOut, admission, rounding>>
besidesWallet == <<appinit, valueOut, admission, rounding>>
besidesValueOut == <<appinit, wallet, admission, rounding>>
besidesAdmission == <<appinit, wallet, valueOut, rounding>>
besidesRounding == <<appinit, wallet, valueOut, admission>>

(***************************************************************************)
(* Unsigned multi-word arithmetic (arith_uint256 / uint64_t).              *)
(***************************************************************************)
Base == 32768
LimbBits == 15

MaxI(x, y) == IF x > y THEN x ELSE y
MinI(x, y) == IF x < y THEN x ELSE y

\* 2^k for k in 0..LimbBits
Pow2Int(k) ==
    <<1, 2, 4, 8, 16, 32, 64, 128, 256, 512, 1024, 2048, 4096, 8192, 16384, 32768>>[k + 1]

\* the index of the most significant non-zero limb, 0 for zero
TopLimb(a) ==
    IF \A i \in 1..Len(a) : a[i] = 0 THEN 0
    ELSE CHOOSE i \in 1..Len(a) : a[i] # 0 /\ \A j \in (i + 1)..Len(a) : a[j] = 0

Trim(a) ==
    IF Len(a) = 0 THEN <<>>
    ELSE IF a[Len(a)] # 0 THEN a
    ELSE SubSeq(a, 1, TopLimb(a))

Limb(a, i) == IF i >= 1 /\ i <= Len(a) THEN a[i] ELSE 0

\* 0 <= n < 2^31
BigFromInt(n) == Trim(<<n % Base, (n \div Base) % Base, n \div (Base * Base)>>)

\* the carry into limb i when the column sums s, each below 2 * Base - 1, are added
CarryIn(s, i) ==
    \E j \in 1..(i - 1) : s[j] >= Base /\ \A k \in (j + 1)..(i - 1) : s[k] = Base - 1

AddCols(s) ==
    Trim([i \in 1..(Len(s) + 1) |-> (Limb(s, i) + (IF CarryIn(s, i) THEN 1 ELSE 0)) % Base])

BigAdd(a, b) ==
    IF Len(a) = 0 THEN b
    ELSE IF Len(b) = 0 THEN a
    ELSE AddCols([i \in 1..MaxI(Len(a), Len(b)) |-> Limb(a, i) + Limb(b, i)])

\* the borrow out of the limbs below i when the column differences s are taken
BorrowIn(s, i) ==
    \E j \in 1..(i - 1) : s[j] < 0 /\ \A k \in (j + 1)..(i - 1) : s[k] = 0

SubCols(s) ==
    Trim([i \in 1..Len(s) |-> (s[i] - (IF BorrowIn(s, i) THEN 1 ELSE 0) + Base) % Base])

\* a - b, for a >= b
BigSub(a, b) ==
    IF Len(a) = 0 \/ Len(b) = 0 THEN a
    ELSE SubCols([i \in 1..Len(a) |-> a[i] - Limb(b, i)])

\* a * k for a single limb k in 0..Base - 1
BigMulSmall(a, k) ==
    IF Len(a) = 0 \/ k = 0 THEN <<>>
    ELSE AddCols([i \in 1..(Len(a) + 1) |->
                ((Limb(a, i) * k) % Base) + ((Limb(a, i - 1) * k) \div Base)])

\* a * limb + Base * hi
MulAdd(a, limb, hi) ==
    IF Len(hi) = 0 THEN BigMulSmall(a, limb)
    ELSE BigAdd(BigMulSmall(a, limb), <<0>> \o hi)

\* a * (b[k] + Base * b[k+1] + ...)
RECURSIVE MulFrom(_, _, _)
MulFrom(a, b, k) ==
    IF k > Len(b) THEN <<>> ELSE MulAdd(a, b[k], MulFrom(a, b, k + 1))

\* the full (unbounded) product
BigMul(a, b) == IF Len(a) < Len(b) THEN MulFrom(b, a, 1) ELSE MulFrom(a, b, 1)

\* the most significant limb where a and b, of one length, differ; 0 when equal
TopDiff(a, b) ==
    IF \A i \in 1..Len(a) : a[i] = b[i] THEN 0
    ELSE CHOOSE i \in 1..Len(a) : a[i] # b[i] /\ \A j \in (i + 1)..Len(a) : a[j] = b[j]

CmpAt(a, b, i) == IF i = 0 THEN 0 ELSE IF a[i] < b[i] THEN -1 ELSE 1

BigCmp(a, b) ==
    IF Len(a) < Len(b) THEN -1
    ELSE IF Len(a) > Len(b) THEN 1
    ELSE CmpAt(a, b, TopDiff(a, b))

BigLess(a, b) == BigCmp(a, b) < 0
BigLeq(a, b) == BigCmp(a, b) <= 0

\* a >> (LimbBits * q + r), 0 <= r < LimbBits
ShrLimbs(a, q, r) ==
    IF Len(a) <= q THEN <<>>
    ELSE Trim([i \in 1..(Len(a) - q) |->
                 (a[i + q] \div Pow2Int(r))
                 + (Limb(a, i + q + 1) % Pow2Int(r)) * Pow2Int(LimbBits - r)])

\* a >> k
BigShr(a, k) == ShrLimbs(a, k \div LimbBits, k % LimbBits)

\* a << (LimbBits * q + r), 0 <= r < LimbBits, unbounded
ShlLimbs(a, q, r) ==
    IF Len(a) = 0 THEN <<>>
    ELSE Trim([i \in 1..(Len(a) + q + 1) |->
                 IF i <= q THEN 0
                 ELSE (Limb(a, i - q) % Pow2Int(LimbBits - r)) * Pow2Int(r)
                      + (Limb(a, i - q - 1) \div Pow2Int(LimbBits - r))])

\* a << k, unbounded
BigShl(a, k) == ShlLimbs(a, k \div LimbBits, k % LimbBits)

\* a mod 2^(LimbBits * q + r)
LowLimbs(a, q, r) ==
    IF Len(a) <= q THEN a
    ELSE Trim([i \in 1..(q + 1) |-> IF i <= q THEN a[i] ELSE a[i] % Pow2Int(r)])

\* a mod 2^k: what a k-bit word keeps
BigLowBits(a, k) == LowLimbs(a, k \div LimbBits, k % LimbBits)

BigPow2(k) == BigShl(<<1>>, k)

\* the number of bits of a non-zero limb
BitLen(x) == CHOOSE k \in 1..LimbBits : Pow2Int(k - 1) <= x /\ x < Pow2Int(k)

\* Long division (Knuth's algorithm D).  d is normalised: its top limb has its
\* top bit set.  r1 is the running remainder with the next limb of the dividend
\* shifted in, so r1 < d * Base.  The estimate from the two top limbs is at most
\* 2 above the quotient limb.
DivEstimate(r1, d) ==
    MinI(Base - 1, (Limb(r1, Len(d) + 1) * Base + Limb(r1, Len(d))) \div d[Len(d)])

DivCorrect(r1, d, est) ==
    IF BigLeq(BigMulSmall(d, est), r1) THEN est
    ELSE IF BigLeq(BigMulSmall(d, est - 1), r1) THEN est - 1
    ELSE est - 2

DivDigit(r1, d) ==
    IF BigLess(r1, d) THEN 0 ELSE DivCorrect(r1, d, DivEstimate(r1, d))

DivShiftIn(limb, r) == Trim(<<limb>> \o r)

Reverse(s) == [i \in 1..Len(s) |-> s[Len(s) - i + 1]]

\* the quotient's limbs for the limbs n[1..j] of the dividend, the most
\* significant first
RECURSIVE DivLimbs(_, _, _, _)
DivLimbs(n, d, j, r1) ==
    IF j = 0 THEN <<>>
    ELSE <<DivDigit(r1, d)>>
         \o DivLimbs(n, d, j - 1,
                     DivShiftIn(Limb(n, j - 1), BigSub(r1, BigMulSmall(d, DivDigit(r1, d)))))

DivNormalised(n, d) ==
    Trim(Reverse(DivLimbs(n, d, Len(n), DivShiftIn(Limb(n, Len(n)), <<>>))))

\* truncating division, d # 0 (base_uint::operator/= throws on d = 0)
BigDiv(n, d) ==
    IF BigLess(n, d) THEN <<>>
    ELSE DivNormalised(BigShl(n, LimbBits - BitLen(d[Len(d)])),
                       BigShl(d, LimbBits - BitLen(d[Len(d)])))

\* arith_uint256: products and sums wrap at 256 bits
Mul256(a, b) == BigLowBits(BigMul(a, b), 256)
Add256(a, b) == BigLowBits(BigAdd(a, b), 256)
Not256(a) == BigSub(BigSub(BigPow2(256), <<1>>), a)
GetLow64(a) == BigLowBits(a, 64)

\* uint64_t / int64_t (two's complement bit patterns)
Add64(a, b) == BigLowBits(BigAdd(a, b), 64)
Sub64(a, b) == BigLowBits(BigSub(BigAdd(a, BigPow2(64)), b), 64)
IsNegative64(a) == BigLeq(BigPow2(63), a)

\* a 64-bit word given as its bits 63..60, 59..30 and 29..0
U64(hi, mid, lo) ==
    Trim(<<lo % Base, lo \div Base, mid % Base, mid \div Base, hi>>)

(***************************************************************************)
(* amount.h                                                                *)
(***************************************************************************)
COIN == 100000000
MAX_MONEY == BigMul(BigFromInt(1000000000), BigFromInt(COIN))
MoneyRange(nValue) == ~IsNegative64(nValue) /\ BigLeq(nValue, MAX_MONEY)

(***************************************************************************)
(* primitives/transaction.cpp: the rate table                              *)
(***************************************************************************)
ONEDAY == 1108
MAXINTERESTPERIOD == ONEDAY * 365

\* the loop body of initRateTable on uint64_t: rateTable[i-1] + (rateTable[i-1] >> 22)
RateStep_Shift2(r) == Add64(r, BigShr(r, 2))
RateStep(r) == Add64(r, BigShr(r, 22))

\* the table indices this model reads
SamplePeriods ==
    {0, 1, 2, 19, 20, 119, 120, 988, 989, 1008,
     1107, 1108, 1109, 202210, 404419, 404420}

\* rateTable after initRateTable(), at the indices this model reads.  The
\* entries are the ones the loop writes: C6_RateTable checks each against the
\* loop under SpecRate.
rateTable ==
    (0 :> U64(4, 0, 0))
    @@ (1 :> U64(4, 1024, 0))
    @@ (2 :> U64(4, 2048, 262144))
    @@ (19 :> U64(4, 19456, 44826676))
    @@ (20 :> U64(4, 20480, 49807422))
    @@ (119 :> U64(4, 121857, 766788258))
    @@ (120 :> U64(4, 122881, 797983832))
    @@ (988 :> U64(4, 1011831, 50385939))
    @@ (989 :> U64(4, 1012855, 309414687))
    @@ (1008 :> U64(4, 1032315, 985812759))
    @@ (1107 :> U64(4, 1133717, 503515913))
    @@ (1108 :> U64(4, 1134741, 793747585))
    @@ (1109 :> U64(4, 1135766, 10499646))
    @@ (202210 :> U64(4, 212135520, 690176508))
    @@ (404419 :> U64(4, 434747636, 1054580189))
    @@ (404420 :> U64(4, 434748764, 680825560))

\* getRateForAmount(periods, theAmount): the interest on theAmount over periods blocks
getRateForAmount_Mul64(periods, theAmount) ==
    Sub64(GetLow64(BigDiv(GetLow64(BigMul(theAmount, rateTable[periods])), rateTable[0])),
          theAmount)
getRateForAmount(periods, theAmount) ==
    Sub64(GetLow64(BigDiv(Mul256(theAmount, rateTable[periods]), rateTable[0])), theAmount)

\* GetInterest(nValue, outputBlockHeight, valuationHeight): the value returned (ret),
\* whether rateTable was indexed and with which index (blocks).  Both heights are
\* non-negative ints where they are subtracted, so the difference does not overflow.
GetInterest_InterestOnly(nValue, outputBlockHeight, valuationHeight) ==
    IF outputBlockHeight < 0 \/ valuationHeight < 0 \/ valuationHeight < outputBlockHeight
    THEN [indexed |-> FALSE, blocks |-> 0, ret |-> nValue]
    ELSE [indexed |-> TRUE,
          blocks |-> MinI(MAXINTERESTPERIOD, valuationHeight - outputBlockHeight),
          ret |-> getRateForAmount(
                      MinI(MAXINTERESTPERIOD, valuationHeight - outputBlockHeight), nValue)]
GetInterest_GuardOffByOne(nValue, outputBlockHeight, valuationHeight) ==
    IF outputBlockHeight <= 0 \/ valuationHeight < 0 \/ valuationHeight < outputBlockHeight
    THEN [indexed |-> FALSE, blocks |-> 0, ret |-> nValue]
    ELSE [indexed |-> TRUE,
          blocks |-> MinI(MAXINTERESTPERIOD, valuationHeight - outputBlockHeight),
          ret |-> Add64(nValue, getRateForAmount(
                      MinI(MAXINTERESTPERIOD, valuationHeight - outputBlockHeight), nValue))]
GetInterest_ClampOffByOne(nValue, outputBlockHeight, valuationHeight) ==
    IF outputBlockHeight < 0 \/ valuationHeight < 0 \/ valuationHeight < outputBlockHeight
    THEN [indexed |-> FALSE, blocks |-> 0, ret |-> nValue]
    ELSE [indexed |-> TRUE,
          blocks |-> MinI(MAXINTERESTPERIOD - 1, valuationHeight - outputBlockHeight),
          ret |-> Add64(nValue, getRateForAmount(
                      MinI(MAXINTERESTPERIOD - 1, valuationHeight - outputBlockHeight),
                      nValue))]
GetInterest_NoNegativeCheck(nValue, outputBlockHeight, valuationHeight) ==
    IF valuationHeight < outputBlockHeight
    THEN [indexed |-> FALSE, blocks |-> 0, ret |-> nValue]
    ELSE [indexed |-> TRUE,
          blocks |-> MinI(MAXINTERESTPERIOD, valuationHeight - outputBlockHeight),
          ret |-> Add64(nValue, getRateForAmount(
                      MinI(MAXINTERESTPERIOD, valuationHeight - outputBlockHeight), nValue))]
GetInterest(nValue, outputBlockHeight, valuationHeight) ==
    IF outputBlockHeight < 0 \/ valuationHeight < 0 \/ valuationHeight < outputBlockHeight
    THEN [indexed |-> FALSE, blocks |-> 0, ret |-> nValue]
    ELSE [indexed |-> TRUE,
          blocks |-> MinI(MAXINTERESTPERIOD, valuationHeight - outputBlockHeight),
          ret |-> Add64(nValue, getRateForAmount(
                      MinI(MAXINTERESTPERIOD, valuationHeight - outputBlockHeight), nValue))]

InitRateStart ==
    [pc |-> "start", i |-> 0, r0 |-> <<>>, lastIdx |-> 0, lastVal |-> <<>>, predVal |-> <<>>]

\* rateTable[0]=1; rateTable[0]=rateTable[0]<<62;
InitRateTableBegin ==
    /\ initRate.pc = "start"
    /\ initRate' = [pc |-> "loop", i |-> 1,
                    r0 |-> BigLowBits(BigShl(<<1>>, 62), 64),
                    lastIdx |-> 0,
                    lastVal |-> BigLowBits(BigShl(<<1>>, 62), 64),
                    predVal |-> <<>>]
    /\ UNCHANGED <<interest, chain, connect, block, hashCall, hashRef, work,
                   reorg, pv, view, startup, shutdown, lateVars>>

\* for(int i=1;i<MAXINTERESTPERIOD+1;i++) rateTable[i]=rateTable[i-1]+(rateTable[i-1]>>22);
InitRateTableStep ==
    /\ initRate.pc = "loop"
    /\ initRate.i < MAXINTERESTPERIOD + 1
    /\ initRate' = [initRate EXCEPT !.i = @ + 1,
                                    !.lastIdx = initRate.i,
                                    !.lastVal = RateStep(initRate.lastVal),
                                    !.predVal = initRate.lastVal]
    /\ UNCHANGED <<interest, chain, connect, block, hashCall, hashRef, work,
                   reorg, pv, view, startup, shutdown, lateVars>>

\* the loop exits; the second loop only formats getRateForAmount(i, COIN*100)
InitRateTableEnd ==
    /\ initRate.pc = "loop"
    /\ ~(initRate.i < MAXINTERESTPERIOD + 1)
    /\ initRate' = [initRate EXCEPT !.pc = "done"]
    /\ UNCHANGED <<interest, chain, connect, block, hashCall, hashRef, work,
                   reorg, pv, view, startup, shutdown, lateVars>>

InterestIdle ==
    [pc |-> "idle", nValue |-> <<>>, outputBlockHeight |-> 0, valuationHeight |-> 0,
     indexed |-> FALSE, blocks |-> 0, ret |-> <<>>]

(***************************************************************************)
(* GetInterest calls, the table built (AppInit2 runs initRateTable before   *)
(* any block is valued).                                                   *)
(***************************************************************************)
MaxCreationHeight == 2
MaxBeyond == 2
INT_MAX == 2147483647

Amounts ==
    {<<>>, <<1>>, BigFromInt(4194303), BigFromInt(4194304), BigFromInt(COIN),
     BigMul(BigFromInt(100), BigFromInt(COIN)), MAX_MONEY}
CreationHeights == (-1)..MaxCreationHeight
ElapsedBlocks ==
    {-1} \cup SamplePeriods
         \cup ((MAXINTERESTPERIOD + 1)..(MAXINTERESTPERIOD + MaxBeyond))
ValuationHeights(hc) ==
    {hc + d : d \in ElapsedBlocks} \cup {-1} \cup (IF hc >= 0 THEN {INT_MAX} ELSE {})

GetInterestFrame(nValue, outputBlockHeight, valuationHeight, r) ==
    [pc |-> "returned",
     nValue |-> nValue,
     outputBlockHeight |-> outputBlockHeight,
     valuationHeight |-> valuationHeight,
     indexed |-> r.indexed, blocks |-> r.blocks, ret |-> r.ret]

\* a caller evaluates GetInterest
CallGetInterest(nValue, outputBlockHeight, valuationHeight) ==
    /\ interest.pc = "idle"
    /\ interest' = GetInterestFrame(nValue, outputBlockHeight, valuationHeight,
                       GetInterest(nValue, outputBlockHeight, valuationHeight))
    /\ UNCHANGED <<initRate, chain, connect, block, hashCall, hashRef, work,
                   reorg, pv, view, startup, shutdown, lateVars>>

\* the caller has consumed the result
ReturnGetInterest ==
    /\ interest.pc = "returned"
    /\ interest' = InterestIdle
    /\ UNCHANGED <<initRate, chain, connect, block, hashCall, hashRef, work,
                   reorg, pv, view, startup, shutdown, lateVars>>

(***************************************************************************)
(* Block connection (spec 4.6 step 3): inputs are valued with interest at   *)
(* the connecting block's height; coinbase outputs mature after            *)
(* COINBASE_MATURITY blocks.                                               *)
(***************************************************************************)
COINBASE_MATURITY_PlusOne == 20 + 1
COINBASE_MATURITY == 20

\* CTxOut::GetValueWithInterest(outputBlockHeight, valuationHeight) on an output of nValue
GetValueWithInterest_FaceValue(nValue, outputBlockHeight, valuationHeight) == nValue
GetValueWithInterest(nValue, outputBlockHeight, valuationHeight) ==
    GetInterest(nValue, outputBlockHeight, valuationHeight).ret

\* CTransaction::GetValueOut(): the running sum, thrown when a value or the sum
\* leaves the money range
RECURSIVE ValueOutFrom(_, _, _)
ValueOutFrom(vout, k, nValueOut) ==
    IF k > Len(vout) THEN [thrown |-> FALSE, nValueOut |-> nValueOut]
    ELSE IF ~MoneyRange(vout[k]) \/ ~MoneyRange(Add64(nValueOut, vout[k]))
         THEN [thrown |-> TRUE, nValueOut |-> Add64(nValueOut, vout[k])]
         ELSE ValueOutFrom(vout, k + 1, Add64(nValueOut, vout[k]))

GetValueOut(vout) == ValueOutFrom(vout, 1, <<>>)

OutPoints == {"a", "b", "n"}

Coin(nValue, nHeight, fCoinBase) ==
    [present |-> TRUE, nValue |-> nValue, nHeight |-> nHeight, fCoinBase |-> fCoinBase]
NoCoin == [present |-> FALSE, nValue |-> <<>>, nHeight |-> 0, fCoinBase |-> FALSE]

NoUndo == [present |-> FALSE, vin |-> <<>>, spent |-> <<>>, created |-> FALSE]

\* the chain before the blocks this model connects: an ordinary output of one
\* coin created at height 0 and a coinbase output created at the tip, height 100
ChainStart ==
    [height |-> 100,
     coins |-> [o \in OutPoints |->
                  IF o = "a" THEN Coin(BigFromInt(COIN), 0, FALSE)
                  ELSE IF o = "b" THEN Coin(BigFromInt(COIN), 100, TRUE)
                  ELSE NoCoin],
     undo |-> NoUndo]

ConnectIdle ==
    [op |-> "none", h |-> 0, vin |-> <<>>, vout |-> <<>>, spent |-> <<>>,
     result |-> "", nValueIn |-> <<>>, fee |-> <<>>]

\* half the interest one coin earns in a day (S2)
HalfDayInterest == BigDiv(getRateForAmount(ONEDAY, BigFromInt(COIN)), <<2>>)

\* the heights at which this model connects a block with a transaction, and
\* the transactions it offers
ConnectHeights == {119, 120, ONEDAY}
TxIns == {<<"a">>, <<"b">>, <<"n">>, <<"a", "b">>}
TxOuts ==
    {<<BigFromInt(COIN)>>,
     <<BigAdd(BigFromInt(COIN), HalfDayInterest)>>,
     <<BigAdd(BigFromInt(COIN), BigAdd(getRateForAmount(ONEDAY, BigFromInt(COIN)), <<1>>))>>,
     <<BigFromInt(COIN), BigFromInt(COIN)>>,
     <<MAX_MONEY, <<1>>>>}

\* step 3a: the coins the inputs name
SpentCoins(coins, vin) == [i \in 1..Len(vin) |-> coins[vin[i]]]
HaveInputs(spent) == \A i \in 1..Len(spent) : spent[i].present
IsImmature(coin, h) == coin.fCoinBase /\ h - coin.nHeight < COINBASE_MATURITY

\* step 3b: effectiveIn, the inputs valued at height h
RECURSIVE EffectiveIn(_, _, _)
EffectiveIn(spent, h, k) ==
    IF k > Len(spent) THEN <<>>
    ELSE Add64(GetValueWithInterest(spent[k].nValue, spent[k].nHeight, h),
               EffectiveIn(spent, h, k + 1))

\* step 3c: effectiveIn >= faceOut; the fee is the difference
CheckValue(nValueIn, out) ==
    IF out.thrown
    THEN [result |-> "bad-txns-txouttotal-toolarge", nValueIn |-> nValueIn, fee |-> <<>>]
    ELSE IF BigLess(nValueIn, out.nValueOut)
    THEN [result |-> "bad-txns-in-belowout", nValueIn |-> nValueIn, fee |-> <<>>]
    ELSE [result |-> "ok", nValueIn |-> nValueIn, fee |-> BigSub(nValueIn, out.nValueOut)]

CheckTxInputs(spent, vout, h) ==
    IF ~HaveInputs(spent)
    THEN [result |-> "bad-txns-inputs-missingorspent", nValueIn |-> <<>>, fee |-> <<>>]
    ELSE IF \E i \in 1..Len(spent) : IsImmature(spent[i], h)
    THEN [result |-> "bad-txns-premature-spend-of-coinbase", nValueIn |-> <<>>, fee |-> <<>>]
    ELSE CheckValue(EffectiveIn(spent, h, 1), GetValueOut(vout))

\* step 3e: spend each input, add the first output at outpoint "n" with
\* creationHeight = h (further outputs go to outpoints this model does not track;
\* so does the first when "n" holds an unspent coin)
CreatesN(coins, vin) == ~coins["n"].present \/ \E i \in 1..Len(vin) : vin[i] = "n"
UpdateCoins(coins, vin, vout, h) ==
    [o \in OutPoints |->
        IF o = "n" /\ CreatesN(coins, vin) THEN Coin(vout[1], h, FALSE)
        ELSE IF \E i \in 1..Len(vin) : vin[i] = o THEN NoCoin
        ELSE coins[o]]

ConnectFrame(h, vin, vout, spent, r) ==
    [op |-> "ConnectBlock", h |-> h, vin |-> vin, vout |-> vout, spent |-> spent,
     result |-> r.result, nValueIn |-> r.nValueIn, fee |-> r.fee]

\* the block is connected only when its transaction passes
ChainAfterConnect(h, vin, vout, spent, r) ==
    IF r.result = "ok"
    THEN [height |-> h,
          coins |-> UpdateCoins(chain.coins, vin, vout, h),
          undo |-> [present |-> TRUE, vin |-> vin, spent |-> spent,
                    created |-> CreatesN(chain.coins, vin)]]
    ELSE chain

ConnectWith(h, vin, vout, spent, r) ==
    /\ chain' = ChainAfterConnect(h, vin, vout, spent, r)
    /\ connect' = ConnectFrame(h, vin, vout, spent, r)

\* connect the block at the next height, holding one non-coinbase transaction
ConnectBlock(vin, vout) ==
    /\ chain.height + 1 \in ConnectHeights
    /\ ConnectWith(chain.height + 1, vin, vout, SpentCoins(chain.coins, vin),
                   CheckTxInputs(SpentCoins(chain.coins, vin), vout, chain.height + 1))
    /\ UNCHANGED <<initRate, interest, block, hashCall, hashRef, work,
                   reorg, pv, view, startup, shutdown, lateVars>>

\* connect blocks that spend none of the tracked coins, up to height h
AdvanceTip(h) ==
    /\ h + 1 \in ConnectHeights
    /\ h > chain.height
    /\ chain' = [chain EXCEPT !.height = h, !.undo = NoUndo]
    /\ connect' = [ConnectIdle EXCEPT !.op = "AdvanceTip", !.h = h]
    /\ UNCHANGED <<initRate, interest, block, hashCall, hashRef, work,
                   reorg, pv, view, startup, shutdown, lateVars>>

\* disconnect the tip with its undo data: the spent coins come back, the
\* created one goes
DisconnectedChain_ResurrectAtTip(c) ==
    [height |-> c.height - 1,
     coins |-> [o \in OutPoints |->
        IF \E i \in 1..Len(c.undo.vin) : c.undo.vin[i] = o
        THEN [c.undo.spent[CHOOSE i \in 1..Len(c.undo.vin) : c.undo.vin[i] = o]
                 EXCEPT !.nHeight = c.height]
        ELSE IF o = "n" /\ c.undo.created THEN NoCoin
        ELSE c.coins[o]],
     undo |-> NoUndo]
DisconnectedChain(c) ==
    [height |-> c.height - 1,
     coins |-> [o \in OutPoints |->
        IF \E i \in 1..Len(c.undo.vin) : c.undo.vin[i] = o
        THEN c.undo.spent[CHOOSE i \in 1..Len(c.undo.vin) : c.undo.vin[i] = o]
        ELSE IF o = "n" /\ c.undo.created THEN NoCoin
        ELSE c.coins[o]],
     undo |-> NoUndo]

DisconnectBlock ==
    /\ chain.undo.present
    /\ chain' = DisconnectedChain(chain)
    /\ connect' = [ConnectIdle EXCEPT !.op = "DisconnectBlock", !.h = chain.height]
    /\ UNCHANGED <<initRate, interest, block, hashCall, hashRef, work,
                   reorg, pv, view, startup, shutdown, lateVars>>

(***************************************************************************)
(* primitives/block.h, block.cpp: the block header and its hashes          *)
(***************************************************************************)
MaxTx == 1
MaxResults == 2

NullHash == "00"
\* uint256S("0xff...ff"), above every hash
WorstHash == "ff"

BaseHeader ==
    [nVersion |-> 1, hashPrevBlock |-> "p1", hashMerkleRoot |-> "m1",
     nTime |-> 1000, nBits |-> 7, nNonce |-> 0]

\* CBlockHeader::SetNull()
NullHeader ==
    [nVersion |-> 0, hashPrevBlock |-> NullHash, hashMerkleRoot |-> NullHash,
     nTime |-> 0, nBits |-> 0, nNonce |-> 0]

SampleHeaders ==
    {BaseHeader,
     [BaseHeader EXCEPT !.nVersion = 2],
     [BaseHeader EXCEPT !.hashPrevBlock = "p2"],
     [BaseHeader EXCEPT !.hashMerkleRoot = "m2"],
     [BaseHeader EXCEPT !.nTime = 1001],
     [BaseHeader EXCEPT !.nBits = 8],
     [BaseHeader EXCEPT !.nNonce = 1]}

\* CBlock::SetNull(): the header nulled, the memory-only members reset
NullBlock ==
    [nVersion |-> 0, hashPrevBlock |-> NullHash, hashMerkleRoot |-> NullHash,
     nTime |-> 0, nBits |-> 0, nNonce |-> 0,
     nBlockSize |-> 0, fXVal |-> FALSE, vtx |-> <<>>,
     fChecked |-> FALSE, fExcessive |-> FALSE]

\* CBlock(const CBlockHeader &header): SetNull(), then the header is assigned
BlockOf(header) ==
    [NullBlock EXCEPT !.nVersion = header.nVersion,
                      !.hashPrevBlock = header.hashPrevBlock,
                      !.hashMerkleRoot = header.hashMerkleRoot,
                      !.nTime = header.nTime,
                      !.nBits = header.nBits,
                      !.nNonce = header.nNonce]

\* CBlock::GetBlockHeader()
GetBlockHeader(b) ==
    [nVersion |-> b.nVersion, hashPrevBlock |-> b.hashPrevBlock,
     hashMerkleRoot |-> b.hashMerkleRoot, nTime |-> b.nTime, nBits |-> b.nBits,
     nNonce |-> b.nNonce]

\* the members from BEGIN(nVersion) to END(nNonce), in declaration order: the
\* six fields SerializationOp writes
HeaderBytes(b) ==
    <<b.nVersion, b.hashPrevBlock, b.hashMerkleRoot, b.nTime, b.nBits, b.nNonce>>

\* the hash functions, each a function of the bytes it is given
HashBlake3(bytes) == <<"blake3", bytes>>
Hash(bytes) == <<"sha256d", bytes>>

\* CBlockHeader::GetHash()
GetHash_ThroughBlockSize(b) == HashBlake3(HeaderBytes(b) \o <<b.nBlockSize>>)
GetHash(b) == HashBlake3(HeaderBytes(b))

\* CBlockHeader::GetMidHash()
GetMidHash(b) == Hash(HeaderBytes(b))

\* while(newThreadNumber < nThreads) newThreadNumber *= 2;
RECURSIVE RoundThreads(_, _)
RoundThreads(newThreadNumber, nThreads) ==
    IF newThreadNumber < nThreads THEN RoundThreads(newThreadNumber * 2, nThreads)
    ELSE newThreadNumber

\* the (startLocation, finalCalculation) pairs pattern_search may return
Candidates == {<<0, 1>>, <<5, 9>>}
ResultLists ==
    UNION {[1..n -> Candidates] : n \in 0..MaxResults}

\* UintToArith256(fullHash) < UintToArith256(smallestHashSoFar): a hash is below
\* 0xff...ff and not below itself
HashBelow(a, b) == a # WorstHash /\ b = WorstHash

\* for (unsigned i=0; i < results.size(); i++) { fullHash = Hash(BEGIN(nVersion),
\* END(nNonce)); if (fullHash < smallestHashSoFar) { smallestHashSoFar=fullHash;
\* smallestHashLocation=results[i].first; ... } }: the candidate is not written
\* into the header before it is hashed
RECURSIVE BestCandidate_Blake3(_, _, _, _)
BestCandidate_Blake3(b, results, i, best) ==
    IF i > Len(results) THEN best
    ELSE IF HashBelow(HashBlake3(HeaderBytes(b)), best.smallestHashSoFar)
    THEN BestCandidate_Blake3(b, results, i + 1,
             [smallestHashSoFar |-> HashBlake3(HeaderBytes(b)),
              smallestHashLocation |-> results[i][1],
              smallestHashFinalCalculation |-> results[i][2]])
    ELSE BestCandidate_Blake3(b, results, i + 1, best)
RECURSIVE BestCandidate(_, _, _, _)
BestCandidate(b, results, i, best) ==
    IF i > Len(results) THEN best
    ELSE IF HashBelow(Hash(HeaderBytes(b)), best.smallestHashSoFar)
    THEN BestCandidate(b, results, i + 1,
             [smallestHashSoFar |-> Hash(HeaderBytes(b)),
              smallestHashLocation |-> results[i][1],
              smallestHashFinalCalculation |-> results[i][2]])
    ELSE BestCandidate(b, results, i + 1, best)

\* uint256 smallestHashSoFar = uint256S("0xff...ff"); uint32_t
\* smallestHashLocation=0; uint32_t smallestHashFinalCalculation=0;
NoCandidate ==
    [smallestHashSoFar |-> WorstHash, smallestHashLocation |-> 0,
     smallestHashFinalCalculation |-> 0]

\* CBlockHeader::FindBestPatternHash(collisions, scratchpad, nThreads), the
\* pattern search returning `results'
FindBestPatternHash(b, collisions, nThreads, results) ==
    IF nThreads = 0
    THEN [ret |-> WorstHash, collisions |-> collisions, nThreads |-> 0,
          searched |-> FALSE]
    ELSE [ret |-> BestCandidate(b, results, 1, NoCandidate).smallestHashSoFar,
          collisions |-> Len(results),
          nThreads |-> RoundThreads(1, nThreads),
          searched |-> TRUE]

\* ::GetSerializeSize(block): the 80-byte header, the transaction count, the
\* transactions
GetSerializeSize(b) == 80 + 1 + 100 * Len(b.vtx)

HashCallIdle ==
    [op |-> "none", ret |-> NullHash, before |-> NullBlock, collisions |-> 0,
     nThreads |-> 0, results |-> <<>>, searched |-> FALSE]
\* the first GetHash() result, and the transactions the block held when its
\* size was last computed
HashRefNone ==
    [set |-> FALSE, fields |-> <<>>, hash |-> NullHash, sized |-> FALSE, vtx |-> <<>>]

HashFrame(op, ret, collisions) ==
    [op |-> op, ret |-> ret, before |-> block, collisions |-> collisions,
     nThreads |-> 0, results |-> <<>>, searched |-> FALSE]

ConstructBlock(header) ==
    /\ block' = BlockOf(header)
    /\ hashCall' = HashFrame("CBlock", NullHash, 0)
    /\ hashRef' = [hashRef EXCEPT !.sized = FALSE, !.vtx = <<>>]
    /\ UNCHANGED <<initRate, interest, chain, connect, work,
                   reorg, pv, view, startup, shutdown, lateVars>>

BlockSetNull ==
    /\ block' = NullBlock
    /\ hashCall' = HashFrame("SetNull", NullHash, 0)
    /\ hashRef' = [hashRef EXCEPT !.sized = FALSE, !.vtx = <<>>]
    /\ UNCHANGED <<initRate, interest, chain, connect, work,
                   reorg, pv, view, startup, shutdown, lateVars>>

\* vtx.push_back(tx)
PushTx ==
    /\ Len(block.vtx) < MaxTx
    /\ block' = [block EXCEPT !.vtx = Append(@, "tx")]
    /\ hashCall' = HashFrame("vtx.push_back", NullHash, 0)
    /\ UNCHANGED <<initRate, interest, chain, connect, hashRef, work,
                   reorg, pv, view, startup, shutdown, lateVars>>

\* vtx.pop_back(): callers remove transactions as freely as they add them
PopTx ==
    /\ Len(block.vtx) > 0
    /\ block' = [block EXCEPT !.vtx = SubSeq(@, 1, Len(@) - 1)]
    /\ hashCall' = HashFrame("vtx.pop_back", NullHash, 0)
    /\ UNCHANGED <<initRate, interest, chain, connect, hashRef, work,
                   reorg, pv, view, startup, shutdown, lateVars>>

\* the validation flags are set once the block has been checked
MarkChecked ==
    /\ ~block.fChecked
    /\ block' = [block EXCEPT !.fChecked = TRUE]
    /\ hashCall' = HashFrame("fChecked", NullHash, 0)
    /\ UNCHANGED <<initRate, interest, chain, connect, hashRef, work,
                   reorg, pv, view, startup, shutdown, lateVars>>

\* if (nBlockSize == 0) nBlockSize = ::GetSerializeSize(*this, ...);
GetBlockSize_Recomputed(nBlockSize, size) == size
GetBlockSize(nBlockSize, size) == IF nBlockSize = 0 THEN size ELSE nBlockSize

\* CBlock::GetBlockSize(): computed once, then cached in nBlockSize; the value
\* returned is kept in the frame
CallGetBlockSize ==
    /\ block' = [block EXCEPT !.nBlockSize = GetBlockSize(@, GetSerializeSize(block))]
    /\ hashCall' = HashFrame("GetBlockSize",
                              GetBlockSize(block.nBlockSize, GetSerializeSize(block)), 0)
    /\ hashRef' = IF block.nBlockSize = 0
                  THEN [hashRef EXCEPT !.sized = TRUE, !.vtx = block.vtx]
                  ELSE hashRef
    /\ UNCHANGED <<initRate, interest, chain, connect, work,
                   reorg, pv, view, startup, shutdown, lateVars>>

CallGetBlockHeader ==
    /\ hashCall' = HashFrame("GetBlockHeader", GetBlockHeader(block), 0)
    /\ UNCHANGED <<initRate, interest, chain, connect, block, hashRef, work,
                   reorg, pv, view, startup, shutdown, lateVars>>

\* GetHash() is const and assigns nothing; the first hash taken is kept for
\* comparison with later ones
CallGetHash ==
    /\ hashCall' = HashFrame("GetHash", GetHash(block), 0)
    /\ hashRef' = IF hashRef.set THEN hashRef
                  ELSE [hashRef EXCEPT !.set = TRUE, !.fields = HeaderBytes(block),
                                       !.hash = GetHash(block)]
    /\ UNCHANGED <<initRate, interest, chain, connect, block, work,
                   reorg, pv, view, startup, shutdown, lateVars>>

CallGetMidHash ==
    /\ hashCall' = HashFrame("GetMidHash", GetMidHash(block), 0)
    /\ UNCHANGED <<initRate, interest, chain, connect, block, hashRef, work,
                   reorg, pv, view, startup, shutdown, lateVars>>

\* the call as made: the arguments, the value returned, collisions as left, and
\* the thread count handed to pattern_search when it ran
PatternFrame(r, nThreads, results) ==
    [HashFrame("FindBestPatternHash", r.ret, r.collisions)
        EXCEPT !.nThreads = nThreads,
               !.results = IF r.searched THEN results ELSE <<>>,
               !.searched = r.searched]

CallFindBestPatternHash(nThreads, results) ==
    /\ hashCall' = PatternFrame(
                       FindBestPatternHash(block, hashCall.collisions, nThreads, results),
                       nThreads, results)
    /\ UNCHANGED <<initRate, interest, chain, connect, block, hashRef, work,
                   reorg, pv, view, startup, shutdown, lateVars>>

(***************************************************************************)
(* primitives/block.cpp: GetWorkForDifficultyBits                          *)
(***************************************************************************)
\* a value below 2^30 as an integer
BigToInt(a) == Limb(a, 1) + Base * Limb(a, 2)

\* uint32_t nBits with exponent byte nSize, sign bit fSign and 23-bit mantissa
CompactBits(nSize, fSign, nWord) ==
    BigAdd(BigShl(BigFromInt(nSize * 2 + fSign), 23), BigFromInt(nWord))

\* arith_uint256::SetCompact(nCompact, &fNegative, &fOverflow)
CompactSize(nCompact) == BigToInt(BigShr(nCompact, 24))
CompactWord(nCompact) ==
    IF CompactSize(nCompact) <= 3
    THEN BigToInt(BigShr(BigLowBits(nCompact, 23), 8 * (3 - CompactSize(nCompact))))
    ELSE BigToInt(BigLowBits(nCompact, 23))
CompactTarget(nCompact) ==
    IF CompactSize(nCompact) <= 3
    THEN BigFromInt(CompactWord(nCompact))
    ELSE BigLowBits(BigShl(BigFromInt(CompactWord(nCompact)),
                           8 * (CompactSize(nCompact) - 3)), 256)
SetCompact(nCompact) ==
    [bnTarget |-> CompactTarget(nCompact),
     fNegative |-> CompactWord(nCompact) # 0
                   /\ BigLowBits(BigShr(nCompact, 23), 1) # <<>>,
     fOverflow |-> CompactWord(nCompact) # 0
                   /\ (\/ CompactSize(nCompact) > 34
                       \/ (CompactWord(nCompact) > 255 /\ CompactSize(nCompact) > 33)
                       \/ (CompactWord(nCompact) > 65535 /\ CompactSize(nCompact) > 32))]

\* GetWorkForDifficultyBits(nBits)
GetWorkForDifficultyBits_NoPlusOne(nBits) ==
    IF \/ SetCompact(nBits).fNegative
       \/ SetCompact(nBits).fOverflow
       \/ SetCompact(nBits).bnTarget = <<>>
    THEN <<>>
    ELSE BigDiv(Not256(SetCompact(nBits).bnTarget),
                Add256(SetCompact(nBits).bnTarget, <<1>>))
GetWorkForDifficultyBits(nBits) ==
    IF \/ SetCompact(nBits).fNegative
       \/ SetCompact(nBits).fOverflow
       \/ SetCompact(nBits).bnTarget = <<>>
    THEN <<>>
    ELSE Add256(BigDiv(Not256(SetCompact(nBits).bnTarget),
                       Add256(SetCompact(nBits).bnTarget, <<1>>)), <<1>>)

SampleSizes == {0, 1, 2, 3, 4, 5, 29, 32, 33, 34, 35, 255}
SampleWords == {0, 1, 255, 256, 65535, 65536, 8388607}

WorkIdle ==
    [pc |-> "idle", nBits |-> <<>>, bnTarget |-> <<>>, fNegative |-> FALSE,
     fOverflow |-> FALSE, ret |-> <<>>]

WorkFrame(nBits, c, ret) ==
    [pc |-> "returned", nBits |-> nBits, bnTarget |-> c.bnTarget,
     fNegative |-> c.fNegative, fOverflow |-> c.fOverflow, ret |-> ret]

CallGetWork(nBits) ==
    /\ work.pc = "idle"
    /\ work' = WorkFrame(nBits, SetCompact(nBits), GetWorkForDifficultyBits(nBits))
    /\ UNCHANGED <<initRate, interest, chain, connect, block, hashCall, hashRef,
                   reorg, pv, view, startup, shutdown, lateVars>>

ReturnGetWork ==
    /\ work.pc = "returned"
    /\ work' = WorkIdle
    /\ UNCHANGED <<initRate, interest, chain, connect, block, hashCall, hashRef,
                   reorg, pv, view, startup, shutdown, lateVars>>

(***************************************************************************)
(* Chain activation (spec 4.9): the block index, FindMostWorkChain and the  *)
(* reorganisation that disconnects to the fork point and connects up to the *)
(* most-work tip.  chainWork sums GetWorkForDifficultyBits over a chain.    *)
(***************************************************************************)
\* the blocks of S4 above genesis "G": A = G -> a1 -> a2, B = G -> b1 -> b2 -> b3,
\* and x, a block on a1 with the most work of all whose input does not exist.
\* Each holds one transaction; its output is the outpoint named after the block.
\* b2 pays out the interest its input has earned.
BlockTree ==
    [b \in {"a1", "a2", "b1", "b2", "b3", "x"} |->
        [prev  |-> CASE b = "a1" -> "G" [] b = "a2" -> "a1" [] b = "b1" -> "G"
                     [] b = "b2" -> "b1" [] b = "b3" -> "b2" [] b = "x" -> "a1",
         nBits |-> IF b = "x" THEN CompactBits(30, 0, 65535)
                   ELSE CompactBits(32, 0, 8388607),
         vin   |-> CASE b = "a1" -> <<"g">> [] b = "a2" -> <<"a1">> [] b = "b1" -> <<"g">>
                     [] b = "b2" -> <<"b1">> [] b = "b3" -> <<"b2">> [] b = "x" -> <<"a2">>,
         vout  |-> IF b = "b2"
                   THEN <<BigAdd(BigFromInt(COIN), getRateForAmount(1, BigFromInt(COIN)))>>
                   ELSE <<BigFromInt(COIN)>>]]

\* the chain from genesis up to b, genesis left out
RECURSIVE ChainTo(_)
ChainTo(b) == IF b = "G" THEN <<>> ELSE Append(ChainTo(BlockTree[b].prev), b)

\* the UTXO set at genesis: one ordinary coin "g"
GenesisCoins ==
    [o \in {"g"} \cup DOMAIN BlockTree |->
        IF o = "g" THEN Coin(BigFromInt(COIN), 0, FALSE) ELSE NoCoin]

\* connect block b at height h to the coins: step 3 of block connection, the
\* undo data being the coins spent
ConnectTip(coins, b, h) ==
    LET spent == [i \in 1..Len(BlockTree[b].vin) |-> coins[BlockTree[b].vin[i]]]
        r == CheckTxInputs(spent, BlockTree[b].vout, h)
    IN  [ok |-> r.result = "ok",
         undo |-> spent,
         coins |-> IF r.result # "ok" THEN coins
                   ELSE [o \in DOMAIN coins |->
                            IF o = b THEN Coin(BlockTree[b].vout[1], h, FALSE)
                            ELSE IF \E i \in 1..Len(spent) : BlockTree[b].vin[i] = o
                                 THEN NoCoin
                                 ELSE coins[o]]]

\* disconnect block b: its output goes, the coins in its undo data come back
DisconnectTip(coins, b, undo) ==
    [o \in DOMAIN coins |->
        IF o = b THEN NoCoin
        ELSE IF \E i \in 1..Len(undo) : BlockTree[b].vin[i] = o
             THEN undo[CHOOSE i \in 1..Len(undo) : BlockTree[b].vin[i] = o]
             ELSE coins[o]]

ReorgStart ==
    [pc |-> "idle", received |-> <<>>, chainWork |-> [b \in {"G"} |-> <<>>],
     failed |-> {}, active |-> <<>>,
     coins |-> GenesisCoins, undo |-> [b \in DOMAIN BlockTree |-> <<>>],
     disconnected |-> 0]

\* the tip of a chain given as the blocks above genesis
TipOf(active) == IF active = <<>> THEN "G" ELSE active[Len(active)]

\* FindMostWorkChain: among genesis and the received blocks with no failed
\* block on their chain, the one with the most chainWork, the earliest received
\* among equals
FindMostWorkChain(received, failed, chainWork) ==
    LET at(b) == IF b = "G" THEN 0 ELSE CHOOSE i \in 1..Len(received) : received[i] = b
        cands == {"G"} \cup {received[i] : i \in {j \in 1..Len(received) :
                     \A k \in 1..Len(ChainTo(received[j])) :
                         ChainTo(received[j])[k] \notin failed}}
    IN  CHOOSE c \in cands : \A d \in cands :
            \/ BigLess(chainWork[d], chainWork[c])
            \/ chainWork[d] = chainWork[c] /\ at(c) <= at(d)

\* submit-block: a block whose parent is known enters the index with
\* chainWork = chainWork(parent) + work(bits), and chain activation starts
SubmitBlock(b) ==
    /\ reorg.pc = "idle"
    /\ \A i \in 1..Len(reorg.received) : reorg.received[i] # b
    /\ BlockTree[b].prev = "G" \/ \E i \in 1..Len(reorg.received) :
                                      reorg.received[i] = BlockTree[b].prev
    /\ reorg' = [reorg EXCEPT
                    !.pc = "activating",
                    !.received = Append(@, b),
                    !.chainWork = (b :> BigAdd(reorg.chainWork[BlockTree[b].prev],
                                      GetWorkForDifficultyBits(BlockTree[b].nBits))) @@ @,
                    !.disconnected = 0]
    /\ UNCHANGED <<kernelVars, pv, view, startup, shutdown, lateVars>>

\* the tip is not on the most-work chain: disconnect it
ActivateDisconnect ==
    LET best == ChainTo(FindMostWorkChain(reorg.received, reorg.failed, reorg.chainWork))
        n == Len(reorg.active)
    IN  /\ reorg.pc = "activating"
        /\ n > 0
        /\ ~(n <= Len(best) /\ SubSeq(best, 1, n) = reorg.active)
        /\ reorg' = [reorg EXCEPT
                        !.active = SubSeq(@, 1, n - 1),
                        !.coins = DisconnectTip(@, reorg.active[n],
                                                reorg.undo[reorg.active[n]]),
                        !.undo[reorg.active[n]] = <<>>,
                        !.disconnected = @ + 1]
        /\ UNCHANGED <<kernelVars, pv, view, startup, shutdown, lateVars>>

\* the tip is on the most-work chain and below its tip: connect the next block,
\* or mark it failed when it does not connect
ActivateConnect ==
    LET best == ChainTo(FindMostWorkChain(reorg.received, reorg.failed, reorg.chainWork))
        n == Len(reorg.active)
    IN  /\ reorg.pc = "activating"
        /\ n < Len(best)
        /\ SubSeq(best, 1, n) = reorg.active
        /\ LET r == ConnectTip(reorg.coins, best[n + 1], n + 1)
           IN  reorg' = IF r.ok
                        THEN [reorg EXCEPT !.active = Append(@, best[n + 1]),
                                           !.coins = r.coins,
                                           !.undo[best[n + 1]] = r.undo]
                        ELSE [reorg EXCEPT !.failed = @ \cup {best[n + 1]}]
        /\ UNCHANGED <<kernelVars, pv, view, startup, shutdown, lateVars>>

\* the tip is the most-work tip: activation is done
ActivateDone ==
    /\ reorg.pc = "activating"
    /\ reorg.active = ChainTo(FindMostWorkChain(reorg.received, reorg.failed, reorg.chainWork))
    /\ reorg' = [reorg EXCEPT !.pc = "idle"]
    /\ UNCHANGED <<kernelVars, pv, view, startup, shutdown, lateVars>>

(***************************************************************************)
(* Parallel validation (spec 4.8, 5): each worker validates a child of the  *)
(* tip on a private fork of the shared cache, polls its cancellation flag   *)
(* between transactions, on a coin lookup and in the script check, and the  *)
(* first to finish commits under the committer mutex.                       *)
(***************************************************************************)
MaxWorkers == 2

\* c1, c2 and bad are children of genesis with identical work, d1 is a child of
\* c1; the second transaction of bad spends a coin that does not exist
PVBlocks ==
    [b \in {"c1", "c2", "bad", "d1"} |->
        [prev |-> IF b = "d1" THEN "c1" ELSE "G",
         txs  |-> CASE b = "c1" ->
                        <<[vin |-> <<"g">>, vout |-> <<BigFromInt(COIN)>>, out |-> "c1a"],
                          [vin |-> <<"c1a">>, vout |-> <<BigFromInt(COIN)>>, out |-> "c1b"]>>
                    [] b = "c2" ->
                        <<[vin |-> <<"g">>, vout |-> <<BigFromInt(COIN)>>, out |-> "c2a"],
                          [vin |-> <<"c2a">>, vout |-> <<BigFromInt(COIN)>>, out |-> "c2b"]>>
                    [] b = "bad" ->
                        <<[vin |-> <<"g">>, vout |-> <<BigFromInt(COIN)>>, out |-> "ba"],
                          [vin |-> <<"zz">>, vout |-> <<BigFromInt(COIN)>>, out |-> "bb"]>>
                    [] b = "d1" ->
                        <<[vin |-> <<"c1b">>, vout |-> <<BigFromInt(COIN)>>, out |-> "d1a"]>>]]

PVGenesisCoins ==
    [o \in {"g", "zz", "c1a", "c1b", "c2a", "c2b", "ba", "bb", "d1a"} |->
        IF o = "g" THEN Coin(BigFromInt(COIN), 0, FALSE) ELSE NoCoin]

\* step 3e for one transaction at height h
ApplyTx(coins, tx, h) ==
    [o \in DOMAIN coins |->
        IF o = tx.out THEN Coin(tx.vout[1], h, FALSE)
        ELSE IF \E i \in 1..Len(tx.vin) : tx.vin[i] = o THEN NoCoin
        ELSE coins[o]]

\* steps 3a-3c for one transaction
TxValid(coins, tx, h) ==
    CheckTxInputs([i \in 1..Len(tx.vin) |-> coins[tx.vin[i]]], tx.vout, h).result = "ok"

\* a whole block connected by the committer itself: the coins, or the coins
\* unchanged when a transaction fails
RECURSIVE ConnectTxs(_, _, _, _)
ConnectTxs(coins, txs, k, h) ==
    IF k > Len(txs) THEN [ok |-> TRUE, coins |-> coins]
    ELSE IF ~TxValid(coins, txs[k], h) THEN [ok |-> FALSE, coins |-> coins]
         ELSE ConnectTxs(ApplyTx(coins, txs[k], h), txs, k + 1, h)

WorkerIdle ==
    [pc |-> "idle", blk |-> "", fork |-> <<>>, txi |-> 0, at |-> "", quit |-> "no",
     startTip |-> "", h |-> 0]

PVStart ==
    [status |-> [b \in DOMAIN PVBlocks |-> "none"],
     received |-> <<>>,
     active |-> <<>>,
     coins |-> PVGenesisCoins,
     base |-> PVGenesisCoins,
     undo |-> [b \in DOMAIN PVBlocks |-> <<>>],
     log |-> <<>>,
     mutex |-> 0,
     worker |-> [w \in 1..MaxWorkers |-> WorkerIdle],
     outcome |-> [b \in DOMAIN PVBlocks |-> ""],
     event |-> <<"none", 0>>]

\* the worker may validate: it runs, is not committing, and its poll of the
\* cancellation flag found it clear
Polled(w, at) ==
    /\ pv.worker[w].pc = "running"
    /\ pv.worker[w].at = at
    /\ pv.worker[w].quit = "no"

\* the worker returns: its fork is discarded with it; the event records the
\* polling point and the transaction it returned at
WorkerReturns(w, kind, status) ==
    [pv EXCEPT !.worker[w] = WorkerIdle,
               !.outcome[pv.worker[w].blk] = kind,
               !.status[pv.worker[w].blk] = status,
               !.event = <<kind, w, pv.worker[w].at, pv.worker[w].txi>>]

\* a block on the tip is handed to a free worker, which forks the shared cache
PVSubmit(w, b) ==
    /\ pv.mutex = 0
    /\ pv.worker[w].pc = "idle"
    /\ pv.status[b] = "none"
    /\ PVBlocks[b].prev = TipOf(pv.active)
    /\ pv' = [pv EXCEPT !.status[b] = "VALID",
                        !.received = Append(@, b),
                        !.worker[w] = [pc |-> "running", blk |-> b, fork |-> pv.coins,
                                       txi |-> 1, at |-> "between", quit |-> "no",
                                       startTip |-> TipOf(pv.active),
                                       h |-> Len(pv.active) + 1],
                        !.event = <<"submit", w>>]
    /\ UNCHANGED <<kernelVars, reorg, view, startup, shutdown, lateVars>>

\* a poll finds the flag set: the worker returns, the block stays VALID; the
\* outcome tells a competitor's commit ("cancelled") from the coordinator's stop
PVObserveCancel(w) ==
    /\ pv.worker[w].pc = "running"
    /\ pv.worker[w].at \in {"between", "lookup", "script"}
    /\ pv.worker[w].quit # "no"
    /\ pv' = WorkerReturns(w, IF pv.worker[w].quit = "stop" THEN "stopped" ELSE "cancelled",
                            "VALID")
    /\ UNCHANGED <<kernelVars, reorg, view, startup, shutdown, lateVars>>

\* polling point (a), between transactions: the next transaction is taken up
PVNextTx(w) ==
    /\ Polled(w, "between")
    /\ pv.worker[w].txi <= Len(PVBlocks[pv.worker[w].blk].txs)
    /\ pv' = [pv EXCEPT !.worker[w].at = "lookup", !.event = <<"next", w>>]
    /\ UNCHANGED <<kernelVars, reorg, view, startup, shutdown, lateVars>>

\* polling point (c), the coin lookup in the fork: a missing input fails the block
PVLookupCoins(w) ==
    LET tx == PVBlocks[pv.worker[w].blk].txs[pv.worker[w].txi]
    IN  /\ Polled(w, "lookup")
        /\ pv' = IF \A i \in 1..Len(tx.vin) : pv.worker[w].fork[tx.vin[i]].present
                 THEN [pv EXCEPT !.worker[w].at = "script", !.event = <<"lookup", w>>]
                 ELSE WorkerReturns(w, "failed", "FAILED")
        /\ UNCHANGED <<kernelVars, reorg, view, startup, shutdown, lateVars>>

\* polling point (b), the script and value checks: the transaction is applied to
\* the fork, or fails the block
PVCheckTx_SharedCache(w) ==
    LET tx == PVBlocks[pv.worker[w].blk].txs[pv.worker[w].txi]
    IN  IF TxValid(pv.worker[w].fork, tx, pv.worker[w].h)
        THEN [pv EXCEPT !.coins = ApplyTx(pv.worker[w].fork, tx, pv.worker[w].h),
                        !.worker[w].fork = ApplyTx(@, tx, pv.worker[w].h),
                        !.worker[w].txi = @ + 1,
                        !.worker[w].at = "between",
                        !.event = <<"check", w>>]
        ELSE WorkerReturns(w, "failed", "FAILED")
PVCheckTx(w) ==
    LET tx == PVBlocks[pv.worker[w].blk].txs[pv.worker[w].txi]
    IN  IF TxValid(pv.worker[w].fork, tx, pv.worker[w].h)
        THEN [pv EXCEPT !.worker[w].fork = ApplyTx(@, tx, pv.worker[w].h),
                        !.worker[w].txi = @ + 1,
                        !.worker[w].at = "between",
                        !.event = <<"check", w>>]
        ELSE WorkerReturns(w, "failed", "FAILED")

PVCheckScripts(w) ==
    /\ Polled(w, "script")
    /\ pv' = PVCheckTx(w)
    /\ UNCHANGED <<kernelVars, reorg, view, startup, shutdown, lateVars>>

\* the committer mutex can be taken by worker w
MutexFree_Always(w) == TRUE
MutexFree(w) == pv.mutex = 0

\* the finished worker may commit: the tip is still the one it forked from and
\* no competitor's commit has cancelled it
MayCommit_Always(w) == TRUE
MayCommit(w) ==
    /\ pv.worker[w].quit = "no"
    /\ pv.worker[w].startTip = TipOf(pv.active)

\* every transaction validated: under the mutex the worker starts its commit,
\* or abandons its fork when it has lost
PVFinish(w) ==
    /\ pv.worker[w].pc = "running"
    /\ pv.worker[w].at = "between"
    /\ pv.worker[w].txi > Len(PVBlocks[pv.worker[w].blk].txs)
    /\ MutexFree(w)
    /\ pv' = IF MayCommit(w)
             THEN [pv EXCEPT !.mutex = w, !.worker[w].at = "commitCoins",
                             !.event = <<"lock", w>>]
             ELSE WorkerReturns(w, IF pv.worker[w].quit = "stop" THEN "stopped"
                                      ELSE "abandoned", "VALID")
    /\ UNCHANGED <<kernelVars, reorg, view, startup, shutdown, lateVars>>

\* commit, first half: the fork is written into the shared cache
PVCommitCoins(w) ==
    /\ pv.worker[w].pc = "running"
    /\ pv.worker[w].at = "commitCoins"
    /\ pv' = [pv EXCEPT !.undo[pv.worker[w].blk] = pv.coins,
                        !.coins = pv.worker[w].fork,
                        !.worker[w].at = "commitTip",
                        !.event = <<"commitCoins", w>>]
    /\ UNCHANGED <<kernelVars, reorg, view, startup, shutdown, lateVars>>

\* commit, second half: the block becomes the tip, the workers on its
\* competitors are told to quit, the mutex is released
PVCommitTip(w) ==
    /\ pv.worker[w].pc = "running"
    /\ pv.worker[w].at = "commitTip"
    /\ pv' = [pv EXCEPT
                !.active = Append(@, pv.worker[w].blk),
                !.log = Append(@, <<"connect", pv.worker[w].blk>>),
                !.mutex = 0,
                !.outcome[pv.worker[w].blk] = "committed",
                !.worker = [v \in 1..MaxWorkers |->
                    IF v = w THEN WorkerIdle
                    ELSE IF pv.worker[v].pc = "running" /\ pv.worker[v].quit = "no"
                         THEN [pv.worker[v] EXCEPT !.quit = "commit"]
                         ELSE pv.worker[v]],
                !.event = <<"commitTip", w>>]
    /\ UNCHANGED <<kernelVars, reorg, view, startup, shutdown, lateVars>>

\* the coordinator cancels a worker (shutdown); a second cancel changes nothing
PVCancel(w) ==
    /\ pv.worker[w].pc = "running"
    /\ pv.worker[w].at \in {"between", "lookup", "script"}
    /\ pv' = [pv EXCEPT !.worker[w].quit = IF @ = "no" THEN "stop" ELSE @,
                        !.event = <<"cancel", w>>]
    /\ UNCHANGED <<kernelVars, reorg, view, startup, shutdown, lateVars>>

\* the committer flushes the shared cache to the UTXO base
PVFlush ==
    /\ pv.mutex = 0
    /\ pv.base # pv.coins
    /\ pv' = [pv EXCEPT !.base = pv.coins, !.event = <<"flush", 0>>]
    /\ UNCHANGED <<kernelVars, reorg, view, startup, shutdown, lateVars>>

\* the VALID children of the tip in order of receipt, connected by the committer
\* until one connects; those that fail are marked FAILED
RECURSIVE PromoteFrom(_, _)
PromoteFrom(st, k) ==
    IF k > Len(st.received) THEN st
    ELSE LET b == st.received[k]
             r == ConnectTxs(st.coins, PVBlocks[b].txs, 1, Len(st.active) + 1)
         IN  IF st.status[b] # "VALID" \/ PVBlocks[b].prev # TipOf(st.active)
             THEN PromoteFrom(st, k + 1)
             ELSE IF r.ok
                  THEN [st EXCEPT !.undo[b] = st.coins,
                                  !.coins = r.coins,
                                  !.active = Append(@, b),
                                  !.log = Append(@, <<"connect", b>>),
                                  !.outcome[b] = "committed"]
                  ELSE PromoteFrom([st EXCEPT !.status[b] = "FAILED",
                                              !.outcome[b] = "failed"], k + 1)

\* invalidate-block of the tip, with no validation in flight: the tip is marked
\* FAILED and disconnected, and the best VALID block on the new tip is activated
PVInvalidate ==
    /\ pv.mutex = 0
    /\ \A w \in 1..MaxWorkers : pv.worker[w].pc = "idle"
    /\ pv.active # <<>>
    /\ pv' = PromoteFrom(
                [pv EXCEPT !.status[TipOf(pv.active)] = "FAILED",
                           !.outcome[TipOf(pv.active)] = "invalidated",
                           !.coins = pv.undo[TipOf(pv.active)],
                           !.undo[TipOf(pv.active)] = <<>>,
                           !.active = SubSeq(@, 1, Len(@) - 1),
                           !.log = Append(@, <<"disconnect", TipOf(pv.active)>>),
                           !.event = <<"invalidate", 0>>], 1)
    /\ UNCHANGED <<kernelVars, reorg, view, startup, shutdown, lateVars>>

(***************************************************************************)
(* The layered UTXO view (spec 4.5): the coin database, the error-catching  *)
(* wrapper around its reads, and the in-memory cache with dirty and fresh   *)
(* flags on top (AppInit2); bitcoin-tx signs against a cache over an empty  *)
(* view.                                                                    *)
(***************************************************************************)
ViewOutPoints == {"p", "q"}
Scripts == {"s", "t"}
MaxAmount == 2

SpentCoin == [spent |-> TRUE, nValue |-> 0, nHeight |-> 0, script |-> ""]
ViewCoin(v, h, sc) == [spent |-> FALSE, nValue |-> v, nHeight |-> h, script |-> sc]

\* the coins AddCoin is called with
NewCoins == {ViewCoin(v, 2, "s") : v \in 1..MaxAmount}

NoEntry == [in |-> FALSE, coin |-> SpentCoin, dirty |-> FALSE, fresh |-> FALSE]
EmptyCache == [o \in ViewOutPoints |-> NoEntry]

\* CCoinsView viewDummy: the view with no coins
EmptyView == [o \in ViewOutPoints |-> SpentCoin]

\* pcoinsdbview, pcoinscatcher and pcoinsTip as AppInit2 stacks them: a database
\* holding one coin, and an empty cache reading it through the catcher
ViewStart ==
    [alive |-> TRUE,
     base |-> [o \in ViewOutPoints |-> IF o = "p" THEN ViewCoin(1, 1, "s") ELSE SpentCoin],
     cache |-> EmptyCache,
     direct |-> [o \in ViewOutPoints |-> IF o = "p" THEN ViewCoin(1, 1, "s") ELSE SpentCoin],
     dropped |-> {},
     written |-> {},
     tx |-> [cache |-> EmptyCache, thrown |-> FALSE],
     last |-> [kind |-> "none"]]

\* CCoinsViewErrorCatcher::GetCoin: what the backing view returned, or abort()
\* when the backing read throws std::runtime_error
CCoinsViewErrorCatcher_NotFound(base, o, err) ==
    [aborted |-> FALSE,
     found |-> ~err /\ ~base[o].spent,
     coin |-> IF err THEN SpentCoin ELSE base[o]]
CCoinsViewErrorCatcher(base, o, err) ==
    IF err THEN [aborted |-> TRUE, found |-> FALSE, coin |-> SpentCoin]
    ELSE [aborted |-> FALSE, found |-> ~base[o].spent, coin |-> base[o]]

\* GetCoin on the cache: cache-first, then the view beneath
GetCoin(cache, beneath, o) ==
    IF cache[o].in THEN cache[o].coin ELSE beneath.coin

\* the coin a caller sees at o when no read fails
Lookup(cache, base, o) == GetCoin(cache, CCoinsViewErrorCatcher(base, o, FALSE), o)

\* AddCoin: fails on an unspent coin at o unless possibleOverwrite; the new entry
\* is dirty, and fresh when it replaces nothing the base can hold
AddCoin(cache, beneath, o, coin, possibleOverwrite) ==
    IF ~possibleOverwrite /\ ~GetCoin(cache, beneath, o).spent
    THEN [ok |-> FALSE, cache |-> cache]
    ELSE [ok |-> TRUE,
          cache |-> [cache EXCEPT ![o] =
                        [in |-> TRUE, coin |-> coin, dirty |-> TRUE,
                         fresh |-> cache[o].fresh \/
                                   (~possibleOverwrite /\ ~cache[o].dirty)]]]

\* SpendCoin: returns the spent coin; a fresh entry is dropped, any other is
\* marked deleted
SpendCoin(cache, beneath, o) ==
    LET cur == GetCoin(cache, beneath, o)
    IN  IF cur.spent THEN [ok |-> FALSE, coin |-> SpentCoin, cache |-> cache]
        ELSE [ok |-> TRUE, coin |-> cur,
              cache |-> [cache EXCEPT ![o] =
                            IF cache[o].fresh THEN NoEntry
                            ELSE [in |-> TRUE, coin |-> SpentCoin, dirty |-> TRUE,
                                  fresh |-> FALSE]]]

\* Flush: one batch holding every dirty entry, applied to the base
FlushBatch(cache) == {o \in ViewOutPoints : cache[o].in /\ cache[o].dirty}
Flush_SkipDeletions(cache, base) ==
    [o \in ViewOutPoints |->
        IF o \in FlushBatch(cache) /\ ~cache[o].coin.spent THEN cache[o].coin ELSE base[o]]
Flush(cache, base) ==
    [o \in ViewOutPoints |-> IF o \in FlushBatch(cache) THEN cache[o].coin ELSE base[o]]

\* a read of o reaches the database only when the cache has no entry for it;
\* only such a read can fail
Beneath(o, err) ==
    CCoinsViewErrorCatcher(view.base, o, err /\ ~view.cache[o].in)

\* bitcoind and bitcoin-tx are two programs: a run is of one or the other
NodeRuns == view.alive /\ view.last.kind # "MutateTxSign"
TxToolRuns == ~view.tx.thrown /\ view.last.kind \in {"none", "MutateTxSign"}

\* the process after abort()
Aborted(kind, o) ==
    [view EXCEPT !.alive = FALSE,
                 !.last = [kind |-> kind, out |-> o, readFailed |-> TRUE, returned |-> FALSE]]

ViewGetCoin(o, err) ==
    /\ NodeRuns
    /\ view' = IF Beneath(o, err).aborted THEN Aborted("GetCoin", o)
               ELSE [view EXCEPT
                       !.cache[o] = IF @.in \/ ~Beneath(o, err).found THEN @
                                    ELSE [in |-> TRUE, coin |-> Beneath(o, err).coin,
                                          dirty |-> FALSE, fresh |-> FALSE],
                       !.last = [kind |-> "GetCoin", out |-> o,
                                 readFailed |-> err /\ ~view.cache[o].in,
                                 returned |-> TRUE,
                                 found |-> ~GetCoin(view.cache, Beneath(o, err), o).spent,
                                 coin |-> GetCoin(view.cache, Beneath(o, err), o)]]
    /\ UNCHANGED <<kernelVars, reorg, pv, startup, shutdown, lateVars>>

ViewAddCoin(o, coin, possibleOverwrite, err) ==
    LET r == AddCoin(view.cache, Beneath(o, err), o, coin, possibleOverwrite)
    IN  /\ NodeRuns
        /\ view' = IF Beneath(o, err).aborted THEN Aborted("AddCoin", o)
                   ELSE [view EXCEPT
                           !.cache = r.cache,
                           !.direct[o] = IF r.ok THEN coin ELSE @,
                           !.dropped = IF r.ok THEN @ \ {o} ELSE @,
                           !.last = [kind |-> "AddCoin", out |-> o,
                                     readFailed |-> err /\ ~view.cache[o].in,
                                     returned |-> TRUE, ok |-> r.ok, coin |-> coin,
                                     possibleOverwrite |-> possibleOverwrite]]
        /\ UNCHANGED <<kernelVars, reorg, pv, startup, shutdown, lateVars>>

ViewSpendCoin(o, err) ==
    LET r == SpendCoin(view.cache, Beneath(o, err), o)
    IN  /\ NodeRuns
        /\ view' = IF Beneath(o, err).aborted THEN Aborted("SpendCoin", o)
                   ELSE [view EXCEPT
                           !.cache = r.cache,
                           !.direct[o] = IF r.ok THEN SpentCoin ELSE @,
                           !.dropped = IF r.ok /\ view.cache[o].fresh THEN @ \cup {o} ELSE @,
                           !.last = [kind |-> "SpendCoin", out |-> o,
                                     readFailed |-> err /\ ~view.cache[o].in,
                                     returned |-> TRUE, ok |-> r.ok, coin |-> r.coin]]
        /\ UNCHANGED <<kernelVars, reorg, pv, startup, shutdown, lateVars>>

ViewFlush ==
    /\ NodeRuns
    /\ view' = [view EXCEPT !.base = Flush(view.cache, view.base),
                            !.written = FlushBatch(view.cache),
                            !.cache = EmptyCache,
                            !.dropped = {},
                            !.last = [kind |-> "Flush", dropped |-> view.dropped]]
    /\ UNCHANGED <<kernelVars, reorg, pv, startup, shutdown, lateVars>>

\* MutateTxSign, one entry of prevtxs: the coin is entered at height 1 with
\* AddCoin(out, newcoin, true), unless an unspent coin with another scriptPubKey
\* is already there
PrevTxOverwrite_False == FALSE
PrevTxOverwrite == TRUE

MutateTxSign(out, scriptPubKey, hasAmount, amount) ==
    LET coin == GetCoin(view.tx.cache, CCoinsViewErrorCatcher(EmptyView, out, FALSE), out)
        newcoin == ViewCoin(IF hasAmount THEN amount ELSE 0, 1, scriptPubKey)
        r == AddCoin(view.tx.cache, CCoinsViewErrorCatcher(EmptyView, out, FALSE), out,
                     newcoin, PrevTxOverwrite)
    IN  /\ TxToolRuns
        /\ view' = IF ~coin.spent /\ coin.script # scriptPubKey
                   THEN [view EXCEPT !.tx.thrown = TRUE,
                                     !.last = [kind |-> "MutateTxSign", out |-> out,
                                               thrown |-> TRUE,
                                               scriptPubKey |-> scriptPubKey]]
                   ELSE [view EXCEPT !.tx.cache = r.cache,
                                     !.tx.thrown = ~r.ok,
                                     !.last = [kind |-> "MutateTxSign", out |-> out,
                                               thrown |-> ~r.ok,
                                               scriptPubKey |-> scriptPubKey,
                                               coin |-> newcoin]]
        /\ UNCHANGED <<kernelVars, reorg, pv, startup, shutdown, lateVars>>

(***************************************************************************)
(* Startup (init.cpp): AppInit2 starts ThreadImport and later sets          *)
(* fAppInit2; ThreadImport imports blocks, waits for fAppInit2, and calls   *)
(* ReconsiderChainOnStartup before and after ActivateBestChain.  The block  *)
(* index holds the active tip "old" and a tip "best" of more work that the  *)
(* previous run left with a failure mark.                                   *)
(***************************************************************************)
StartupStart ==
    [pc |-> "off", fReindex |-> FALSE, avoidReconsiderMostWorkChain |-> FALSE,
     stopafterblockimport |-> FALSE,
     fRequestShutdown |-> FALSE, fAppInit2 |-> FALSE,
     marked |-> "none", mark |-> "none", active |-> "old", mostWork |-> "old",
     reconsidered |-> <<>>, activated |-> "no", trace |-> <<>>]

\* AppInit2 up to the creation of the import thread (line 1786): the options,
\* and the failure mark the block index was loaded with
AppInit2Starts(reindex, avoid, stopafter, mark) ==
    /\ startup.pc = "off"
    /\ startup' = [startup EXCEPT !.pc = "reindex",
                                  !.fReindex = reindex,
                                  !.avoidReconsiderMostWorkChain = avoid,
                                  !.stopafterblockimport = stopafter,
                                  !.marked = mark,
                                  !.mark = mark]
    /\ UNCHANGED <<kernelVars, reorg, pv, view, shutdown, lateVars>>

\* fAppInit2.store(true), at the end of AppInit2
AppInit2Completes ==
    /\ startup.pc \notin {"off", "returned"}
    /\ ~startup.fAppInit2
    /\ startup' = [startup EXCEPT !.fAppInit2 = TRUE, !.trace = Append(@, "AppInit2")]
    /\ UNCHANGED <<kernelVars, reorg, pv, view, shutdown, lateVars>>

\* StartShutdown() from another thread, at any time before the thread is done
RequestShutdown ==
    /\ startup.pc \notin {"off", "returned", "done"}
    /\ ~startup.fRequestShutdown
    /\ startup' = [startup EXCEPT !.fRequestShutdown = TRUE]
    /\ UNCHANGED <<kernelVars, reorg, pv, view, shutdown, lateVars>>

\* the guard of ReconsiderChainOnStartup
ShouldReconsider_Never(st) == FALSE
ShouldReconsider(st) == ~st.fReindex /\ ~st.avoidReconsiderMostWorkChain

\* ReconsiderMostWorkChain (spec 4.9): FAILED marks, not FAILED_VALID ones, are
\* cleared and FindMostWorkChain is run again
ReconsiderMostWorkChain(st) ==
    [st EXCEPT !.mark = IF @ = "FAILED" THEN "none" ELSE @,
               !.mostWork = IF st.mark \in {"FAILED", "none"} THEN "best" ELSE "old",
               !.trace = Append(@, "ReconsiderMostWorkChain")]

\* ReconsiderChainOnStartup: the call is skipped while reindexing or when the
\* avoidReconsiderMostWorkChain tweak is set; whatever it throws is swallowed
ReconsiderChainOnStartup(st, throws) ==
    IF ShouldReconsider(st)
    THEN IF throws
         THEN [st EXCEPT !.reconsidered = Append(@, "threw"),
                         !.trace = Append(@, "ReconsiderMostWorkChain")]
         ELSE [ReconsiderMostWorkChain(st) EXCEPT !.reconsidered = Append(@, "ran")]
    ELSE [st EXCEPT !.reconsidered = Append(@, "skipped")]

\* ActivateBestChain (spec 4.9): the most-work tip without a failure mark
\* becomes the active tip; a failure is only logged by ThreadImport
ActivateBestChain(st, ok) ==
    [st EXCEPT !.active = IF ok /\ st.mark = "none" THEN "best" ELSE @,
               !.activated = IF ok THEN "ok" ELSE "failed",
               !.trace = Append(@, "ActivateBestChain")]

Returns(st) == [st EXCEPT !.pc = "returned"]

\* lines 474-500: -reindex
ThreadImportReindex ==
    /\ startup.pc = "reindex"
    /\ startup' = IF startup.fRequestShutdown THEN Returns(startup)
                  ELSE [startup EXCEPT !.fReindex = FALSE, !.pc = "import"]
    /\ UNCHANGED <<kernelVars, reorg, pv, view, shutdown, lateVars>>

\* lines 502-547: bootstrap.dat, -loadblock, -stopafterblockimport
ThreadImportFiles ==
    /\ startup.pc = "import"
    /\ startup' = IF startup.fRequestShutdown THEN Returns(startup)
                  ELSE IF startup.stopafterblockimport
                       THEN [Returns(startup) EXCEPT !.fRequestShutdown = TRUE]
                       ELSE [startup EXCEPT !.pc = "wait"]
    /\ UNCHANGED <<kernelVars, reorg, pv, view, shutdown, lateVars>>

\* lines 554-559: the wait for fAppInit2
ThreadImportWait ==
    /\ startup.pc = "wait"
    /\ startup.fAppInit2 \/ startup.fRequestShutdown
    /\ startup' = IF startup.fAppInit2 THEN [startup EXCEPT !.pc = "reconsider"]
                  ELSE Returns(startup)
    /\ UNCHANGED <<kernelVars, reorg, pv, view, shutdown, lateVars>>

\* line 564: the first ReconsiderChainOnStartup
ThreadImportReconsider(throws) ==
    /\ startup.pc = "reconsider"
    /\ startup' = [ReconsiderChainOnStartup(startup, throws) EXCEPT !.pc = "mempool"]
    /\ UNCHANGED <<kernelVars, reorg, pv, view, shutdown, lateVars>>

\* lines 566-632: wallet transactions and the mempool
ThreadImportMempool ==
    /\ startup.pc = "mempool"
    /\ startup' = IF startup.fRequestShutdown THEN Returns(startup)
                  ELSE [startup EXCEPT !.pc = "activate"]
    /\ UNCHANGED <<kernelVars, reorg, pv, view, shutdown, lateVars>>

\* lines 634-642: ActivateBestChain
ThreadImportActivate(ok) ==
    /\ startup.pc = "activate"
    /\ startup' = IF startup.fRequestShutdown
                  THEN Returns(ActivateBestChain(startup, ok))
                  ELSE [ActivateBestChain(startup, ok) EXCEPT !.pc = "reconsiderAgain"]
    /\ UNCHANGED <<kernelVars, reorg, pv, view, shutdown, lateVars>>

\* lines 648-650: the second ReconsiderChainOnStartup
ThreadImportReconsiderAgain(throws) ==
    /\ startup.pc = "reconsiderAgain"
    /\ startup' = IF startup.fRequestShutdown
                  THEN Returns(ReconsiderChainOnStartup(startup, throws))
                  ELSE [ReconsiderChainOnStartup(startup, throws) EXCEPT !.pc = "finish"]
    /\ UNCHANGED <<kernelVars, reorg, pv, view, shutdown, lateVars>>

\* lines 652-679: the sync flags, txindex, SetRPCWarmupFinished
ThreadImportFinish ==
    /\ startup.pc = "finish"
    /\ startup' = [startup EXCEPT !.pc = "done",
                                  !.trace = Append(@, "SetRPCWarmupFinished")]
    /\ UNCHANGED <<kernelVars, reorg, pv, view, shutdown, lateVars>>

(***************************************************************************)
(* Shutdown (init.cpp): Interrupt() and then Shutdown() run on the main     *)
(* thread while validation workers may be in flight.  The coordinator's     *)
(* part (stop accepting, signal, join) follows spec 4.8.                    *)
(***************************************************************************)
MaxCommits == 2

\* the calls of Interrupt() in order
InterruptOrder_NoWait == <<"StopAllValidationThreads", "InterruptRest">>
InterruptOrder ==
    <<"StopAllValidationThreads", "WaitForAllValidationThreadsToStop", "InterruptRest">>

\* the calls of Shutdown() in order
ShutdownOrder ==
    <<"StopAsync", "ResetPV", "FlushStateToDisk", "Clear", "StopRest", "FlushStateToDisk",
      "DeleteViews">>

ShutdownProgram == InterruptOrder \o ShutdownOrder

ShutdownStart ==
    [stage |-> "off", pc |-> 0, PV |-> "null", pcoinsTip |-> FALSE,
     accepting |-> FALSE, worker |-> [w \in 1..MaxWorkers |-> "idle"],
     tip |-> 0, base |-> 0, flushes |-> 0, flushedOver |-> {}, after |-> {},
     cancelled |-> {}, done |-> <<>>]

\* the call the main thread is about to make
AtCall(name) ==
    /\ shutdown.stage = "stopping"
    /\ shutdown.pc <= Len(ShutdownProgram)
    /\ ShutdownProgram[shutdown.pc] = name

Called(name) ==
    [shutdown EXCEPT !.pc = @ + 1, !.done = Append(@, name)]

Running == {w \in 1..MaxWorkers : shutdown.worker[w] # "idle"}

\* AppInit2 as far as it got: before PV is created (line 1247), before the
\* coin views are (1390-1394), or to the end
NodeStarts(reached) ==
    /\ shutdown.stage = "off"
    /\ shutdown' = [shutdown EXCEPT !.stage = IF reached = "all" THEN "up" ELSE "failed",
                                    !.PV = IF reached = "none" THEN "null" ELSE "alive",
                                    !.pcoinsTip = (reached = "all"),
                                    !.accepting = (reached = "all")]
    /\ UNCHANGED <<kernelVars, reorg, pv, view, startup, lateVars>>

\* a block is handed to a validation worker
WorkerStarts(w) ==
    /\ shutdown.PV = "alive" /\ shutdown.accepting
    /\ shutdown.worker[w] = "idle"
    /\ shutdown.tip < MaxCommits
    /\ shutdown' = [shutdown EXCEPT !.worker[w] = "validating"]
    /\ UNCHANGED <<kernelVars, reorg, pv, view, startup, lateVars>>

\* the worker finishes and commits its block to the UTXO cache
WorkerCommits(w) ==
    /\ shutdown.worker[w] = "validating"
    /\ shutdown.tip < MaxCommits
    /\ shutdown' = [shutdown EXCEPT !.worker[w] = "idle", !.tip = @ + 1,
                                    !.after = IF shutdown.flushes > 0 THEN @ \cup {w} ELSE @]
    /\ UNCHANGED <<kernelVars, reorg, pv, view, startup, lateVars>>

\* the worker polls its flag, finds it set and returns
WorkerQuits(w) ==
    /\ shutdown.worker[w] = "quit"
    /\ shutdown' = [shutdown EXCEPT !.worker[w] = "idle", !.cancelled = @ \cup {w}]
    /\ UNCHANGED <<kernelVars, reorg, pv, view, startup, lateVars>>

\* fRequestShutdown is seen, or AppInit2 failed: the main thread enters Interrupt()
BeginShutdown ==
    /\ shutdown.stage \in {"up", "failed"}
    /\ shutdown' = [shutdown EXCEPT !.stage = "stopping", !.pc = 1]
    /\ UNCHANGED <<kernelVars, reorg, pv, view, startup, lateVars>>

\* Interrupt: if (PV) PV->StopAllValidationThreads()
StopAllValidationThreads ==
    /\ AtCall("StopAllValidationThreads")
    /\ shutdown' = IF shutdown.PV = "null" THEN Called("StopAllValidationThreads")
                   ELSE [Called("StopAllValidationThreads") EXCEPT
                           !.accepting = FALSE,
                           !.worker = [w \in 1..MaxWorkers |->
                                          IF shutdown.worker[w] = "idle" THEN "idle"
                                          ELSE "quit"]]
    /\ UNCHANGED <<kernelVars, reorg, pv, view, startup, lateVars>>

\* Interrupt: if (PV) PV->WaitForAllValidationThreadsToStop()
WaitForAllValidationThreadsToStop ==
    /\ AtCall("WaitForAllValidationThreadsToStop")
    /\ shutdown.PV = "null" \/ Running = {}
    /\ shutdown' = Called("WaitForAllValidationThreadsToStop")
    /\ UNCHANGED <<kernelVars, reorg, pv, view, startup, lateVars>>

\* Interrupt: the HTTP, RPC, REST and Tor interrupts, threadGroup.interrupt_all,
\* StopTxAdmission, txindex
InterruptRest ==
    /\ AtCall("InterruptRest")
    /\ shutdown' = Called("InterruptRest")
    /\ UNCHANGED <<kernelVars, reorg, pv, view, startup, lateVars>>

\* Shutdown: StopHTTPRPC ... StopNode
StopAsync ==
    /\ AtCall("StopAsync")
    /\ shutdown' = Called("StopAsync")
    /\ UNCHANGED <<kernelVars, reorg, pv, view, startup, lateVars>>

\* Shutdown: PV.reset(nullptr)
ResetPV ==
    /\ AtCall("ResetPV")
    /\ shutdown' = [Called("ResetPV") EXCEPT
                      !.PV = IF @ = "null" THEN "null" ELSE "destroyed",
                      !.accepting = FALSE]
    /\ UNCHANGED <<kernelVars, reorg, pv, view, startup, lateVars>>

\* Shutdown: if (pcoinsTip != nullptr) FlushStateToDisk(), both times
FlushStateToDisk ==
    /\ AtCall("FlushStateToDisk")
    /\ shutdown' = IF ~shutdown.pcoinsTip THEN Called("FlushStateToDisk")
                   ELSE [Called("FlushStateToDisk") EXCEPT
                           !.base = shutdown.tip,
                           !.flushes = @ + 1,
                           !.flushedOver = @ \cup Running]
    /\ UNCHANGED <<kernelVars, reorg, pv, view, startup, lateVars>>

\* Shutdown: pcoinsTip->Clear() after the first flush
ClearCache ==
    /\ AtCall("Clear")
    /\ shutdown' = Called("Clear")
    /\ UNCHANGED <<kernelVars, reorg, pv, view, startup, lateVars>>

\* Shutdown: electrum, wallet, miner, txindex, Tor, mempool dump, fee estimates
StopRest ==
    /\ AtCall("StopRest")
    /\ shutdown' = Called("StopRest")
    /\ UNCHANGED <<kernelVars, reorg, pv, view, startup, lateVars>>

\* Shutdown: delete pcoinsTip, pcoinscatcher, pcoinsdbview
DeleteViews ==
    /\ AtCall("DeleteViews")
    /\ shutdown' = [Called("DeleteViews") EXCEPT !.pcoinsTip = FALSE, !.stage = "exited"]
    /\ UNCHANGED <<kernelVars, reorg, pv, view, startup, lateVars>>

(***************************************************************************)
(* Specifications.  AppInit2 builds the rate table before anything is       *)
(* valued; each specification exercises one part of the kernel and leaves   *)
(* the others at rest.                                                     *)
(***************************************************************************)
RateTableBuilt ==
    [pc |-> "done", i |-> MAXINTERESTPERIOD + 1, r0 |-> rateTable[0],
     lastIdx |-> MAXINTERESTPERIOD,
     lastVal |-> rateTable[MAXINTERESTPERIOD],
     predVal |-> rateTable[MAXINTERESTPERIOD - 1]]

(***************************************************************************)
(* CTransaction::GetValueOut on arbitrary 64-bit output values.  CAmount is *)
(* a signed 64-bit integer: an addition that overflows is undefined, and   *)
(* the value it leaves in nValueOut is an input of the model.              *)
(***************************************************************************)
MaxOutputs == 3

INT64_MAX == Sub64(BigPow2(63), <<1>>)
INT64_MIN == BigPow2(63)
MinusOne64 == Sub64(<<>>, <<1>>)

\* output values: in range, just outside it, negative, at the 64-bit limits
ValueSamples ==
    {<<>>, <<1>>, Sub64(MAX_MONEY, <<1>>), MAX_MONEY, Add64(MAX_MONEY, <<1>>),
     MinusOne64, INT64_MIN, INT64_MAX, Sub64(INT64_MAX, MAX_MONEY),
     Add64(Sub64(INT64_MAX, MAX_MONEY), <<1>>)}
ValueLists == UNION {[1..n -> ValueSamples] : n \in 0..MaxOutputs}

\* what a build may leave in nValueOut after an overflowing addition
Overflowed == {"wrapped", "zero", "MAX_MONEY", "minus one"}

\* nValueOut += it->nValue overflows the signed 64-bit range
AddOverflows64(a, b) ==
    /\ IsNegative64(a) = IsNegative64(b)
    /\ IsNegative64(Add64(a, b)) # IsNegative64(a)

\* nValueOut += it->nValue;
SignedAdd64(a, b, overflowed) ==
    IF ~AddOverflows64(a, b) \/ overflowed = "wrapped" THEN Add64(a, b)
    ELSE IF overflowed = "zero" THEN <<>>
    ELSE IF overflowed = "MAX_MONEY" THEN MAX_MONEY
    ELSE MinusOne64

\* if (!MoneyRange(it->nValue) || !MoneyRange(nValueOut)) throw ...
ValueOutOfRange_SumOnly(nValue, nValueOut) == ~MoneyRange(nValueOut)
ValueOutOfRange(nValue, nValueOut) == ~MoneyRange(nValue) \/ ~MoneyRange(nValueOut)

\* the loop of GetValueOut from output k on
RECURSIVE ValueOutLoop(_, _, _, _)
ValueOutLoop(vout, k, st, overflowed) ==
    IF k > Len(vout) THEN st
    ELSE LET sum == SignedAdd64(st.nValueOut, vout[k], overflowed)
             next == [st EXCEPT !.nValueOut = sum,
                                !.overflow = @ \/ AddOverflows64(st.nValueOut, vout[k])]
         IN  IF ValueOutOfRange(vout[k], sum)
             THEN [next EXCEPT !.thrown = TRUE]
             ELSE ValueOutLoop(vout, k + 1, next, overflowed)

ValueOutIdle ==
    [op |-> "none", vout |-> <<>>, thrown |-> FALSE, nValueOut |-> <<>>,
     overflow |-> FALSE]

\* CAmount nValueOut = 0; for (...) {...} return nValueOut; one call on one
\* transaction
CallGetValueOut(vout, overflowed) ==
    /\ valueOut.op = "none"
    /\ valueOut' = ValueOutLoop(vout, 1,
                       [ValueOutIdle EXCEPT !.op = "GetValueOut", !.vout = vout],
                       overflowed)
    /\ UNCHANGED <<kernelVars, nodeVars, besidesValueOut>>

(***************************************************************************)
(* The wallet lock (rpcwallet): walletpassphrase, walletlock, getwalletinfo *)
(* and the LockWallet callback of the "lockwallet" timer.  The handlers    *)
(* hold cs_wallet from entry to return, so one runs at a time; the timer   *)
(* callback runs on another thread and takes cs_nWalletUnlockTime only.    *)
(***************************************************************************)
MaxTime == 4
MaxTimers == 3
Timeouts == {1, 2}

RpcIdle == [pc |-> "idle", op |-> "none", correct |-> FALSE, nSleepTime |-> 0]
NoTimer == [armed |-> FALSE, id |-> 0, at |-> 0]
NoInfo == [seen |-> FALSE, locked |-> FALSE, unlocked_until |-> 0]

\* int64_t nWalletUnlockTime: a global, zero at start; an encrypted wallet
\* starts locked
WalletStart ==
    [locked |-> TRUE, nWalletUnlockTime |-> 0, now |-> 1,
     cs_wallet |-> "none", cs_nWalletUnlockTime |-> "none",
     rpc |-> RpcIdle, timer |-> NoTimer, nTimers |-> 0,
     callback |-> [pc |-> "idle", id |-> 0, at |-> 0],
     timerLocked |-> {}, overtaken |-> {}, info |-> NoInfo]

\* the pending timer has not reached its deadline
Pending(w) == w.timer.armed /\ w.now < w.timer.at

\* an RPC handler is entered and takes cs_wallet: LOCK(pwalletMain->cs_wallet)
RpcEnter(op, correct, nSleepTime) ==
    /\ wallet.rpc.pc = "idle"
    /\ wallet.cs_wallet = "none"
    /\ op = "walletpassphrase" => wallet.nTimers < MaxTimers
    /\ op # "walletpassphrase" => ~correct /\ nSleepTime = 1
    /\ wallet' = [wallet EXCEPT
          !.cs_wallet = "rpc",
          !.rpc = [pc |-> "entered", op |-> op, correct |-> correct,
                   nSleepTime |-> nSleepTime],
          !.overtaken = IF op = "walletpassphrase" /\ correct /\ Pending(wallet)
                        THEN @ \cup {wallet.timer.id} ELSE @]
    /\ UNCHANGED <<kernelVars, nodeVars, besidesWallet>>

\* if (!pwalletMain->Unlock(strWalletPass)) throw JSONRPCError(...): a wrong
\* passphrase leaves the lock state as it is
WalletPassphraseUnlock ==
    /\ wallet.rpc.pc = "entered"
    /\ wallet.rpc.op = "walletpassphrase"
    /\ wallet' = IF wallet.rpc.correct
                 THEN [wallet EXCEPT !.locked = FALSE, !.rpc.pc = "TopUpKeyPool"]
                 ELSE [wallet EXCEPT !.rpc = RpcIdle, !.cs_wallet = "none"]
    /\ UNCHANGED <<kernelVars, nodeVars, besidesWallet>>

\* pwalletMain->TopUpKeyPool(); ... LOCK(cs_nWalletUnlockTime);
WalletPassphraseLock ==
    /\ wallet.rpc.pc = "TopUpKeyPool"
    /\ wallet.cs_nWalletUnlockTime = "none"
    /\ wallet' = [wallet EXCEPT !.cs_nWalletUnlockTime = "rpc", !.rpc.pc = "store"]
    /\ UNCHANGED <<kernelVars, nodeVars, besidesWallet>>

\* RPCRunLater(name, func, nSeconds): the pending timer of that name is erased
\* and a new one armed; a callback that has already been started is not stopped
RPCRunLater(w, at) ==
    [w EXCEPT !.timer = [armed |-> TRUE, id |-> w.nTimers + 1, at |-> at],
              !.nTimers = @ + 1]

\* nWalletUnlockTime = GetTime() + nSleepTime; RPCRunLater("lockwallet", ...);
\* return: both locks are released
WalletPassphraseStore ==
    /\ wallet.rpc.pc = "store"
    /\ wallet' = [RPCRunLater(wallet, wallet.now + wallet.rpc.nSleepTime) EXCEPT
          !.nWalletUnlockTime = wallet.now + wallet.rpc.nSleepTime,
          !.rpc = RpcIdle,
          !.cs_nWalletUnlockTime = "none",
          !.cs_wallet = "none"]
    /\ UNCHANGED <<kernelVars, nodeVars, besidesWallet>>

\* walletlock: { LOCK(cs_nWalletUnlockTime); pwalletMain->Lock();
WalletLockLock ==
    /\ wallet.rpc.pc = "entered"
    /\ wallet.rpc.op = "walletlock"
    /\ wallet.cs_nWalletUnlockTime = "none"
    /\ wallet' = [wallet EXCEPT !.cs_nWalletUnlockTime = "rpc", !.locked = TRUE,
                                !.rpc.pc = "zero"]
    /\ UNCHANGED <<kernelVars, nodeVars, besidesWallet>>

\* nWalletUnlockTime = 0; } return NullUniValue;
WalletLockZero ==
    /\ wallet.rpc.pc = "zero"
    /\ wallet' = [wallet EXCEPT
          !.nWalletUnlockTime = 0,
          !.rpc = RpcIdle,
          !.cs_nWalletUnlockTime = "none",
          !.cs_wallet = "none"]
    /\ UNCHANGED <<kernelVars, nodeVars, besidesWallet>>

\* getwalletinfo: if (pwalletMain->IsCrypted()) obj.pushKV("unlocked_until",
\* nWalletUnlockTime), read under cs_wallet only
GetWalletInfo ==
    /\ wallet.rpc.pc = "entered"
    /\ wallet.rpc.op = "getwalletinfo"
    /\ wallet' = [wallet EXCEPT
          !.info = [seen |-> TRUE, locked |-> wallet.locked,
                    unlocked_until |-> wallet.nWalletUnlockTime],
          !.rpc = RpcIdle,
          !.cs_wallet = "none"]
    /\ UNCHANGED <<kernelVars, nodeVars, besidesWallet>>

\* the timer reaches its deadline and its callback is started
TimerFires ==
    /\ wallet.timer.armed
    /\ wallet.now >= wallet.timer.at
    /\ wallet.callback.pc = "idle"
    /\ wallet' = [wallet EXCEPT !.timer = NoTimer,
                                !.callback = [pc |-> "started", id |-> wallet.timer.id,
                                              at |-> wallet.timer.at]]
    /\ UNCHANGED <<kernelVars, nodeVars, besidesWallet>>

\* LockWallet: LOCK(cs_nWalletUnlockTime); nWalletUnlockTime = 0;
LockWalletZero ==
    /\ wallet.callback.pc = "started"
    /\ wallet.cs_nWalletUnlockTime = "none"
    /\ wallet' = [wallet EXCEPT !.cs_nWalletUnlockTime = "timer",
                                !.nWalletUnlockTime = 0,
                                !.callback.pc = "Lock"]
    /\ UNCHANGED <<kernelVars, nodeVars, besidesWallet>>

\* LockWallet: pWallet->Lock(); }
LockWalletLock ==
    /\ wallet.callback.pc = "Lock"
    /\ wallet' = [wallet EXCEPT !.locked = TRUE,
                                !.timerLocked = @ \cup {wallet.callback.id},
                                !.callback = [pc |-> "idle", id |-> 0, at |-> 0],
                                !.cs_nWalletUnlockTime = "none"]
    /\ UNCHANGED <<kernelVars, nodeVars, besidesWallet>>

\* a second passes; a timer at its deadline is started before the next one
Tick ==
    /\ wallet.now < MaxTime
    /\ ~(wallet.timer.armed /\ wallet.timer.at <= wallet.now /\ wallet.callback.pc = "idle")
    /\ wallet' = [wallet EXCEPT !.now = @ + 1]
    /\ UNCHANGED <<kernelVars, nodeVars, besidesWallet>>

(***************************************************************************)
(* ThreadImport's wait for the admission queues after LoadMempool.  The    *)
(* queues are shared with the admission and commit threads and with the    *)
(* message handlers, which run since StartNode; each takes csTxInQ or      *)
(* csCommitQ for one queue operation.                                      *)
(***************************************************************************)
MaxQueue == 1

\* if (nIterations > 120)
CLEAR_AFTER == 120

AdmissionStart ==
    [pc |-> "LoadMempool", nIterations |-> 0, nInQ |-> 0, nDeferQ |-> 0, nCommitQ |-> 0,
     txInQ |-> 0, txDeferQ |-> 0, txCommitQ |-> 0, inFlight |-> 0,
     fRequestShutdown |-> FALSE, fDumpMempoolLater |-> FALSE, cleared |-> FALSE]

\* LoadMempool(): the saved transactions are enqueued for admission
LoadMempool(n) ==
    /\ admission.pc = "LoadMempool"
    /\ admission' = [admission EXCEPT !.txInQ = n, !.pc = "readInQ"]
    /\ UNCHANGED <<kernelVars, nodeVars, besidesAdmission>>

\* { LOCK(csTxInQ); nInQ = txInQ.size(); nDeferQ = txDeferQ.size(); }
WaitReadInQ ==
    /\ admission.pc = "readInQ"
    /\ admission' = [admission EXCEPT !.nInQ = admission.txInQ,
                                      !.nDeferQ = admission.txDeferQ,
                                      !.pc = "readCommitQ"]
    /\ UNCHANGED <<kernelVars, nodeVars, besidesAdmission>>

\* { lock(csCommitQ); nCommitQ = txCommitQ->size(); }
\* if (nInQ == 0 && nDeferQ == 0 && nCommitQ == 0) break;
\* after the loop: fDumpMempoolLater = !fRequestShutdown;
WaitReadCommitQ ==
    /\ admission.pc = "readCommitQ"
    /\ admission' =
          IF admission.nInQ = 0 /\ admission.nDeferQ = 0 /\ admission.txCommitQ = 0
          THEN [admission EXCEPT !.nCommitQ = 0, !.pc = "afterWait",
                                 !.fDumpMempoolLater = ~admission.fRequestShutdown]
          ELSE [admission EXCEPT !.nCommitQ = admission.txCommitQ, !.pc = "sleep"]
    /\ UNCHANGED <<kernelVars, nodeVars, besidesAdmission>>

\* MilliSleep(1000); nIterations++; if (nIterations > 120): the counter goes
\* on counting; its values above 120 are not told apart
WaitSleep ==
    /\ admission.pc = "sleep"
    /\ admission' = [admission EXCEPT
          !.nIterations = IF @ > CLEAR_AFTER THEN @ ELSE @ + 1,
          !.pc = IF admission.nIterations + 1 > CLEAR_AFTER THEN "clearInQ"
                 ELSE "readInQ"]
    /\ UNCHANGED <<kernelVars, nodeVars, besidesAdmission>>

\* { LOCK(csTxInQ); while (!txInQ.empty()) txInQ.pop(); while
\* (!txDeferQ.empty()) txDeferQ.pop(); }
WaitClearInQ ==
    /\ admission.pc = "clearInQ"
    /\ admission' = [admission EXCEPT !.txInQ = 0, !.txDeferQ = 0, !.pc = "clearCommitQ"]
    /\ UNCHANGED <<kernelVars, nodeVars, besidesAdmission>>

\* { lock(csCommitQ); txCommitQ->clear(); } and back to the top of while (1)
WaitClearCommitQ ==
    /\ admission.pc = "clearCommitQ"
    /\ admission' = [admission EXCEPT !.txCommitQ = 0, !.cleared = TRUE, !.pc = "readInQ"]
    /\ UNCHANGED <<kernelVars, nodeVars, besidesAdmission>>

\* if (fRequestShutdown) return; ... ActivateBestChain(state, chainparams)
AfterWait ==
    /\ admission.pc = "afterWait"
    /\ admission' = [admission EXCEPT
          !.pc = IF admission.fRequestShutdown THEN "returned" ELSE "ActivateBestChain"]
    /\ UNCHANGED <<kernelVars, nodeVars, besidesAdmission>>

\* the steps of ThreadImport in the wait
ImportWaits ==
    \/ WaitReadInQ
    \/ WaitReadCommitQ
    \/ WaitSleep
    \/ WaitClearInQ
    \/ WaitClearCommitQ
    \/ AfterWait

Waiting ==
    admission.pc \in {"readInQ", "readCommitQ", "sleep", "clearInQ", "clearCommitQ"}

\* a signal or the stop RPC
AdmissionRequestShutdown ==
    /\ Waiting
    /\ ~admission.fRequestShutdown
    /\ admission' = [admission EXCEPT !.fRequestShutdown = TRUE]
    /\ UNCHANGED <<kernelVars, nodeVars, besidesAdmission>>

\* a transaction received from a peer is enqueued on txInQ
TxArrives ==
    /\ Waiting
    /\ admission.txInQ < MaxQueue
    /\ admission' = [admission EXCEPT !.txInQ = @ + 1]
    /\ UNCHANGED <<kernelVars, nodeVars, besidesAdmission>>

\* an admission thread takes a transaction off txInQ
AdmissionTakes ==
    /\ Waiting
    /\ admission.txInQ > 0
    /\ admission.inFlight < MaxQueue
    /\ admission' = [admission EXCEPT !.txInQ = @ - 1, !.inFlight = @ + 1]
    /\ UNCHANGED <<kernelVars, nodeVars, besidesAdmission>>

\* and puts it on txCommitQ when it is valid, on txDeferQ when it has to wait,
\* or drops it
AdmissionPuts(where) ==
    /\ Waiting
    /\ admission.inFlight > 0
    /\ where = "txCommitQ" => admission.txCommitQ < MaxQueue
    /\ where = "txDeferQ" => admission.txDeferQ < MaxQueue
    /\ admission' = [admission EXCEPT
          !.inFlight = @ - 1,
          !.txCommitQ = IF where = "txCommitQ" THEN @ + 1 ELSE @,
          !.txDeferQ = IF where = "txDeferQ" THEN @ + 1 ELSE @]
    /\ UNCHANGED <<kernelVars, nodeVars, besidesAdmission>>

\* the commit thread moves txCommitQ into the mempool
CommitThread ==
    /\ Waiting
    /\ admission.txCommitQ > 0
    /\ admission' = [admission EXCEPT !.txCommitQ = 0]
    /\ UNCHANGED <<kernelVars, nodeVars, besidesAdmission>>

(***************************************************************************)
(* AppInit2: the steps of initialisation in program order.  Each action is *)
(* one step; `done' records the steps that have run, `outcome' how the     *)
(* function ended.  The rate table check sits between the RPC servers and  *)
(* the wallet verification; the block database load loop follows.          *)
(***************************************************************************)
\* assert(rateDataHash==-753007581);
RATE_DATA_HASH == -753007581
\* int rateDataHash=MurmurHash3(1989,data2): the value the assertion expects
\* and one that any other dump may hash to
RateDataHashes == {RATE_DATA_HASH, RATE_DATA_HASH + 1}

\* the history cap on load attempts: the loop itself keeps no counter
MaxAttempts == 3

\* the history cap on Shutdown calls
MaxShutdownCalls == 3

\* pcoinsTip, pcoinscatcher, pcoinsdbview, pblocktree, pblockdb: null at start;
\* a pointer is "live" after new and "dangling" after a delete that leaves its
\* value in place
NullPointers ==
    [pcoinsTip |-> "null", pcoinscatcher |-> "null", pcoinsdbview |-> "null",
     pblocktree |-> "null", pblockdb |-> "null"]

\* delete p; without p = nullptr
Deleted(ptr) ==
    [p \in DOMAIN ptr |-> IF ptr[p] = "live" THEN "dangling" ELSE ptr[p]]

\* Shutdown(): who holds cs_Shutdown, where the run is, what it has done
ShutdownIdle ==
    [holder |-> "none", pc |-> "idle", calls |-> 0, runs |-> 0, bounced |-> 0,
     flushes |-> 0, lateFlushes |-> 0, undefined |-> FALSE, crashed |-> FALSE]

AppInitStart ==
    [ptr |-> NullPointers, sd |-> ShutdownIdle, pc |-> "start", outcome |-> "running", done |-> {}, hashed |-> FALSE,
     rateDataHash |-> 0, fReindex |-> FALSE, fLoaded |-> FALSE,
     fRequestShutdown |-> FALSE, attempts |-> 0, fReset |-> FALSE, ran |-> {},
     last |-> "none", offered |-> 0, error |-> "none"]

AppInitRunning == appinit.outcome = "running"

\* return InitError(...) and return false: AppInit2 ends with false
ReturnsFalse(st, why) == [st EXCEPT !.pc = "returned", !.outcome = "false", !.error = why]

\* steps 1-4 up to the creation of CParallelValidation: parameter interaction,
\* sanity checks, the data directory lock; each failure is a return InitError
AppInit2Parameters(ok) ==
    /\ AppInitRunning
    /\ appinit.pc = "start"
    /\ appinit' = IF ok THEN [appinit EXCEPT !.pc = "PV", !.done = @ \cup {"Parameters"}]
                        ELSE ReturnsFalse(appinit, "InitError")
    /\ UNCHANGED <<kernelVars, nodeVars, besidesAppInit>>

\* PV.reset(new CParallelValidation());
AppInit2CreatePV ==
    /\ AppInitRunning
    /\ appinit.pc = "PV"
    /\ appinit' = [appinit EXCEPT !.pc = "servers", !.done = @ \cup {"PV"}]
    /\ UNCHANGED <<kernelVars, nodeVars, besidesAppInit>>

\* if (fServer) { ... if (!AppInitServers(config)) return InitError(...); }
AppInit2Servers(fServer, ok) ==
    /\ AppInitRunning
    /\ appinit.pc = "servers"
    /\ appinit' = IF ~fServer THEN [appinit EXCEPT !.pc = "initRateTable"]
                  ELSE IF ok THEN [appinit EXCEPT !.pc = "initRateTable",
                                                  !.done = @ \cup {"AppInitServers"}]
                  ELSE ReturnsFalse(appinit, "InitError")
    /\ UNCHANGED <<kernelVars, nodeVars, besidesAppInit>>

\* string rateData=initRateTable();
AppInit2RateTable ==
    /\ AppInitRunning
    /\ appinit.pc = "initRateTable"
    /\ initRate = InitRateStart
    /\ initRate' = RateTableBuilt
    /\ appinit' = [appinit EXCEPT !.pc = "rateHash", !.done = @ \cup {"initRateTable"}]
    /\ UNCHANGED <<interest, chain, connect, block, hashCall, hashRef, work,
                   nodeVars, besidesAppInit>>

\* assert(rateDataHash==-753007581): what the assertion lets through
AssertHolds_NDEBUG(rateDataHash) == TRUE
AssertHolds(rateDataHash) == rateDataHash = RATE_DATA_HASH

\* int rateDataHash=MurmurHash3(1989,data2); assert(...): a failed assertion
\* aborts the process
AppInit2RateHash(hash) ==
    /\ AppInitRunning
    /\ appinit.pc = "rateHash"
    /\ appinit' = IF AssertHolds(hash)
                  THEN [appinit EXCEPT !.pc = "verifyWallet", !.rateDataHash = hash,
                                       !.hashed = TRUE, !.done = @ \cup {"rateHash"}]
                  ELSE [appinit EXCEPT !.pc = "aborted", !.rateDataHash = hash,
                                       !.hashed = TRUE, !.outcome = "aborted"]
    /\ UNCHANGED <<kernelVars, nodeVars, besidesAppInit>>

\* step 5: if (!CWallet::Verify()) return false; then step 6 reads -reindex and
\* hard-links old block files (fReindex = true when one was linked)
AppInit2VerifyWallet(ok, reindex, linked) ==
    /\ AppInitRunning
    /\ appinit.pc = "verifyWallet"
    /\ appinit' = IF ok THEN [appinit EXCEPT !.pc = "load", !.fReindex = reindex \/ linked,
                                             !.done = @ \cup {"VerifyWallet"}]
                        ELSE ReturnsFalse(appinit, "wallet")
    /\ UNCHANGED <<kernelVars, nodeVars, besidesAppInit>>

\* the body of one load attempt, in order; Upgrade runs only without reindex
LoadSteps(fReindex) ==
    <<"UnloadBlockIndex", "DeleteViews", "InitializeBlockStorage", "OpenCoinsDB">>
    \o (IF fReindex THEN <<"WriteReindexing">> ELSE <<"Upgrade">>)
    \o <<"LoadBlockIndex", "GenesisCheck", "InitBlockIndex", "PruneCheck",
         "TimeCheck", "VerifyDB">>

\* the steps whose failure sets strLoadError and breaks out of the attempt
Breaking == {"Upgrade", "LoadBlockIndex", "InitBlockIndex", "PruneCheck",
             "TimeCheck", "VerifyDB"}

StepsThrough(steps, n) == {steps[k] : k \in 1..n}

\* delete pcoinsTip; ... delete pblockdb; InitializeBlockStorage(...);
\* pcoinsdbview = new ...; pcoinscatcher = new ...; pcoinsTip = new ...: the
\* pointers after the steps `ran' of an attempt
PointersAfter(ptr, ran) ==
    LET deleted == IF "DeleteViews" \in ran THEN Deleted(ptr) ELSE ptr
        storage == IF "InitializeBlockStorage" \in ran
                   THEN [deleted EXCEPT !.pblocktree = "live", !.pblockdb = "live"]
                   ELSE deleted
    IN  IF "OpenCoinsDB" \in ran
        THEN [storage EXCEPT !.pcoinsdbview = "live", !.pcoinscatcher = "live",
                             !.pcoinsTip = "live"]
        ELSE storage

\* one pass of do { try { ... } catch { ... break; } fLoaded = true; } while (false):
\* failAt = 0 completes every step; otherwise step failAt fails, by its own
\* check or (throws) by an exception
LoadAttempt(st, failAt, throws) ==
    LET steps == LoadSteps(st.fReindex)
        ran == IF failAt = 0 THEN StepsThrough(steps, Len(steps))
               ELSE IF throws THEN StepsThrough(steps, failAt - 1)
               ELSE StepsThrough(steps, failAt)
        base == [st EXCEPT !.attempts = @ + 1, !.fReset = st.fReindex,
                           !.ran = ran, !.done = @ \cup ran,
                           !.ptr = PointersAfter(@, ran)]
    IN  IF failAt = 0
        THEN [base EXCEPT !.fLoaded = TRUE, !.last = "loaded", !.pc = "afterLoad"]
        ELSE IF ~throws /\ steps[failAt] = "GenesisCheck"
        THEN [ReturnsFalse(base, "genesis") EXCEPT !.last = "genesis"]
        ELSE [base EXCEPT !.last = "error", !.pc = "loadFailed"]

AppInit2LoadAttempt(failAt, throws) ==
    /\ AppInitRunning
    /\ appinit.pc = "load"
    /\ ~appinit.fLoaded
    /\ appinit.attempts < MaxAttempts
    /\ failAt \in 0..Len(LoadSteps(appinit.fReindex))
    /\ failAt # 0 => (throws \/ LoadSteps(appinit.fReindex)[failAt] \in Breaking \cup {"GenesisCheck"})
    /\ failAt = 0 => ~throws
    /\ appinit' = LoadAttempt(appinit, failAt, throws)
    /\ UNCHANGED <<kernelVars, nodeVars, besidesAppInit>>

\* if (!fReset): whether the failed attempt offers to rebuild the database
OffersRebuild_Always(fReset) == TRUE
OffersRebuild(fReset) == ~fReset

\* if (!fLoaded) { if (!fReset) { fRet = ThreadSafeMessageBox(...); if (fRet)
\* { fReindex = true; fRequestShutdown = false; } else return false; }
\* else return InitError(strLoadError); }
AppInit2LoadFailed(fRet) ==
    /\ AppInitRunning
    /\ appinit.pc = "loadFailed"
    /\ appinit' = IF OffersRebuild(appinit.fReset)
                  THEN IF fRet
                       THEN [appinit EXCEPT !.pc = "load", !.fReindex = TRUE,
                                            !.fRequestShutdown = FALSE,
                                            !.offered = @ + 1]
                       ELSE [ReturnsFalse(appinit, "declined") EXCEPT !.offered = @ + 1]
                  ELSE ReturnsFalse(appinit, "strLoadError")
    /\ UNCHANGED <<kernelVars, nodeVars, besidesAppInit>>

\* StartTxAdmissionThreads(); if (fRequestShutdown) return false;
AppInit2AfterLoad ==
    /\ AppInitRunning
    /\ appinit.pc = "afterLoad"
    /\ appinit' = IF appinit.fRequestShutdown
                  THEN ReturnsFalse([appinit EXCEPT !.done = @ \cup {"TxAdmission"}],
                                    "shutdown")
                  ELSE [appinit EXCEPT !.pc = "loadWallet", !.done = @ \cup {"TxAdmission"}]
    /\ UNCHANGED <<kernelVars, nodeVars, besidesAppInit>>

\* steps 7-9: the wallet, the network set-up; each failure is a return
AppInit2WalletAndNetwork(ok) ==
    /\ AppInitRunning
    /\ appinit.pc = "loadWallet"
    /\ appinit' = IF ok THEN [appinit EXCEPT !.pc = "import", !.done = @ \cup {"Network"}]
                        ELSE ReturnsFalse(appinit, "InitError")
    /\ UNCHANGED <<kernelVars, nodeVars, besidesAppInit>>

\* threadGroup.create_thread(boost::bind(&ThreadImport, ...));
AppInit2CreateImport ==
    /\ AppInitRunning
    /\ appinit.pc = "import"
    /\ appinit' = [appinit EXCEPT !.pc = "genesis", !.done = @ \cup {"ThreadImport"}]
    /\ UNCHANGED <<kernelVars, nodeVars, besidesAppInit>>

\* while (!fRequestShutdown && !tip) { ...; if (fRequestShutdown) return false; }
\* then step 10: CheckDiskSpace, strErrors, StartNode, fAppInit2.store(true)
AppInit2StartNode(ok) ==
    /\ AppInitRunning
    /\ appinit.pc = "genesis"
    /\ appinit' = IF appinit.fRequestShutdown THEN ReturnsFalse(appinit, "shutdown")
                  ELSE IF ~ok THEN ReturnsFalse(appinit, "InitError")
                  ELSE [appinit EXCEPT !.pc = "returned", !.outcome = "true",
                                       !.done = @ \cup {"StartNode"}]
    /\ UNCHANGED <<kernelVars, nodeVars, besidesAppInit>>

(***************************************************************************)
(* Shutdown(), called once AppInit2 has returned, whatever it returned.    *)
(***************************************************************************)
AppInitReturned == appinit.outcome \in {"true", "false"} /\ ~appinit.sd.crashed

\* TRY_LOCK(cs_Shutdown, lockShutdown); if (!lockShutdown) return;
ShutdownCall ==
    /\ AppInitReturned
    /\ appinit.sd.calls < MaxShutdownCalls
    /\ appinit' = IF appinit.sd.holder = "none"
                  THEN [appinit EXCEPT !.sd.holder = "Shutdown", !.sd.pc = "stop",
                                       !.sd.calls = @ + 1]
                  ELSE [appinit EXCEPT !.sd.bounced = @ + 1, !.sd.calls = @ + 1]
    /\ UNCHANGED <<kernelVars, nodeVars, besidesAppInit>>

\* StopHTTPRPC(); ... StopNode(); PV.reset(nullptr);
ShutdownStopAsync ==
    /\ AppInitReturned
    /\ appinit.sd.pc = "stop"
    /\ appinit' = [appinit EXCEPT !.sd.pc = "flush"]
    /\ UNCHANGED <<kernelVars, nodeVars, besidesAppInit>>

\* FlushStateToDisk() through a pcoinsTip that is not null: a flush when the
\* view is live; undefined when it was deleted, the process dying or going on
FlushThrough(st, survives) ==
    IF st.ptr.pcoinsTip = "null" THEN st
    ELSE IF st.ptr.pcoinsTip = "live"
    THEN [st EXCEPT !.sd.flushes = @ + 1,
                    !.sd.lateFlushes = IF st.sd.runs > 0 THEN @ + 1 ELSE @]
    ELSE [st EXCEPT !.sd.undefined = TRUE, !.sd.crashed = ~survives]

\* if (pcoinsTip != nullptr) { FlushStateToDisk(); pcoinsTip->Clear(); }
ShutdownFlush(survives) ==
    /\ AppInitReturned
    /\ appinit.sd.pc = "flush"
    /\ appinit.ptr.pcoinsTip # "dangling" => survives
    /\ appinit' = [FlushThrough(appinit, survives) EXCEPT !.sd.pc = "delete"]
    /\ UNCHANGED <<kernelVars, nodeVars, besidesAppInit>>

\* if (pcoinsTip != nullptr) FlushStateToDisk(); delete pcoinsTip; pcoinsTip =
\* nullptr; ... delete pblockdb; pblockdb = nullptr: deleting a pointer that
\* was deleted before is undefined
ShutdownDeleteViews(survives) ==
    /\ AppInitReturned
    /\ appinit.sd.pc = "delete"
    /\ (\A p \in DOMAIN appinit.ptr : appinit.ptr[p] # "dangling") => survives
    /\ appinit' =
          [FlushThrough(appinit, survives) EXCEPT
              !.sd.pc = "rest",
              !.sd.undefined = @ \/ \E p \in DOMAIN appinit.ptr :
                                       appinit.ptr[p] = "dangling",
              !.sd.crashed = ~survives,
              !.ptr = IF survives THEN NullPointers ELSE @]
    /\ UNCHANGED <<kernelVars, nodeVars, besidesAppInit>>

\* the rest of Shutdown; cs_Shutdown is released on return
ShutdownReturns ==
    /\ AppInitReturned
    /\ appinit.sd.pc = "rest"
    /\ appinit' = [appinit EXCEPT !.sd.pc = "idle", !.sd.holder = "none",
                                  !.sd.runs = @ + 1]
    /\ UNCHANGED <<kernelVars, nodeVars, besidesAppInit>>

\* a signal or the stop RPC sets fRequestShutdown while AppInit2 runs
AppInit2RequestShutdown ==
    /\ AppInitRunning
    /\ appinit.pc \notin {"start", "PV", "servers"}
    /\ ~appinit.fRequestShutdown
    /\ appinit' = [appinit EXCEPT !.fRequestShutdown = TRUE]
    /\ UNCHANGED <<kernelVars, nodeVars, besidesAppInit>>

(***************************************************************************)
(* The rounding loop of FindBestPatternHash, one doubling at a time, in    *)
(* 32-bit int arithmetic.                                                  *)
(***************************************************************************)
MaxDoublings == 33

INT_MIN == (-INT_MAX) - 1

\* 2^k for k in 0..2*LimbBits
TwoTo(k) ==
    IF k <= LimbBits THEN Pow2Int(k) ELSE Pow2Int(LimbBits) * Pow2Int(k - LimbBits)

TwoTo30 == TwoTo(2 * LimbBits)

\* around every power of two an int holds, and the largest int
ThreadCounts ==
    {0, 1, INT_MAX}
        \cup UNION {{TwoTo(k) - 1, TwoTo(k), TwoTo(k) + 1} : k \in 1..(2 * LimbBits)}

\* newThreadNumber * 2 does not fit an int
DoubleOverflows(x) == x >= TwoTo30 \/ x < -TwoTo30

\* x * 2 where int arithmetic wraps (-fwrapv, or what the machine's multiply
\* leaves)
Wrap32Double(x) ==
    IF x >= TwoTo30 THEN (((x - TwoTo30) * 2) - INT_MAX) - 1
    ELSE IF x < -TwoTo30 THEN (((x + TwoTo30) * 2) + INT_MAX) + 1
    ELSE x * 2

\* signed overflow is undefined: the product wraps, or the build traps
\* (-ftrapv, -fsanitize=signed-integer-overflow)
Doubling == {"wraps", "traps"}

\* the loop's condition
LoopCondition_OrEqual(newThreadNumber, nThreads) == newThreadNumber <= nThreads
LoopCondition(newThreadNumber, nThreads) == newThreadNumber < nThreads

RoundingIdle ==
    [pc |-> "idle", nThreads |-> 0, newThreadNumber |-> 0, doublings |-> 0,
     overflowed |-> FALSE]

\* if(nThreads==0) return smallestHashSoFar; ... int newThreadNumber = 1;
RoundBegin(nThreads) ==
    /\ rounding.pc = "idle"
    /\ rounding' = [rounding EXCEPT
          !.pc = IF nThreads = 0 THEN "returned" ELSE "while",
          !.nThreads = nThreads,
          !.newThreadNumber = IF nThreads = 0 THEN 0 ELSE 1]
    /\ UNCHANGED <<kernelVars, nodeVars, besidesRounding>>

\* while(newThreadNumber < nThreads) newThreadNumber*=2;
RoundDouble(outcome) ==
    /\ rounding.pc = "while"
    /\ LoopCondition(rounding.newThreadNumber, rounding.nThreads)
    /\ rounding.doublings < MaxDoublings
    /\ rounding' =
          IF ~DoubleOverflows(rounding.newThreadNumber)
          THEN [rounding EXCEPT !.newThreadNumber = @ * 2, !.doublings = @ + 1]
          ELSE IF outcome = "traps"
          THEN [rounding EXCEPT !.pc = "aborted", !.overflowed = TRUE]
          ELSE [rounding EXCEPT !.newThreadNumber = Wrap32Double(@),
                                !.doublings = @ + 1, !.overflowed = TRUE]
    /\ UNCHANGED <<kernelVars, nodeVars, besidesRounding>>

\* nThreads=newThreadNumber; ... patternsearch::pattern_search( midHash,
\* scratchpad,nThreads)
RoundDone ==
    /\ rounding.pc = "while"
    /\ ~LoopCondition(rounding.newThreadNumber, rounding.nThreads)
    /\ rounding' = [rounding EXCEPT !.pc = "pattern_search"]
    /\ UNCHANGED <<kernelVars, nodeVars, besidesRounding>>


AtRest ==
    /\ interest = InterestIdle
    /\ chain = ChainStart
    /\ connect = ConnectIdle
    /\ block = NullBlock
    /\ hashCall = HashCallIdle
    /\ hashRef = HashRefNone
    /\ work = WorkIdle
    /\ reorg = ReorgStart
    /\ pv = PVStart
    /\ view = ViewStart
    /\ startup = StartupStart
    /\ shutdown = ShutdownStart
    /\ appinit = AppInitStart
    /\ wallet = WalletStart
    /\ valueOut = ValueOutIdle
    /\ admission = AdmissionStart
    /\ rounding = RoundingIdle

InitRate == initRate = InitRateStart /\ AtRest
NextRate == InitRateTableBegin \/ InitRateTableStep \/ InitRateTableEnd
SpecRate == InitRate /\ [][NextRate]_vars

InitBuilt == initRate = RateTableBuilt /\ AtRest

NextInterest ==
    \/ \E nValue \in Amounts : \E hc \in CreationHeights : \E hv \in ValuationHeights(hc) :
           CallGetInterest(nValue, hc, hv)
    \/ ReturnGetInterest
SpecInterest == InitBuilt /\ [][NextInterest]_vars

NextConnect ==
    \/ \E vin \in TxIns : \E vout \in TxOuts : ConnectBlock(vin, vout)
    \/ \E h \in {c - 1 : c \in ConnectHeights} : AdvanceTip(h)
    \/ DisconnectBlock
SpecConnect == InitBuilt /\ [][NextConnect]_vars

NextHeader ==
    \/ \E header \in SampleHeaders : ConstructBlock(header)
    \/ BlockSetNull
    \/ PushTx
    \/ PopTx
    \/ MarkChecked
    \/ CallGetBlockSize
    \/ CallGetBlockHeader
    \/ CallGetHash
    \/ CallGetMidHash
    \/ \E nThreads \in {0, 1, 3} : \E results \in ResultLists :
           CallFindBestPatternHash(nThreads, results)
SpecHeader == InitBuilt /\ [][NextHeader]_vars

NextWork ==
    \/ \E nSize \in SampleSizes : \E fSign \in {0, 1} : \E nWord \in SampleWords :
           CallGetWork(CompactBits(nSize, fSign, nWord))
    \/ ReturnGetWork
SpecWork == InitBuilt /\ [][NextWork]_vars

NextReorg ==
    \/ \E b \in DOMAIN BlockTree : SubmitBlock(b)
    \/ ActivateDisconnect
    \/ ActivateConnect
    \/ ActivateDone
SpecReorg == InitBuilt /\ [][NextReorg]_vars

NextPV ==
    \/ \E w \in 1..MaxWorkers : \E b \in DOMAIN PVBlocks : PVSubmit(w, b)
    \/ \E w \in 1..MaxWorkers : PVObserveCancel(w)
    \/ \E w \in 1..MaxWorkers : PVNextTx(w)
    \/ \E w \in 1..MaxWorkers : PVLookupCoins(w)
    \/ \E w \in 1..MaxWorkers : PVCheckScripts(w)
    \/ \E w \in 1..MaxWorkers : PVFinish(w)
    \/ \E w \in 1..MaxWorkers : PVCommitCoins(w)
    \/ \E w \in 1..MaxWorkers : PVCommitTip(w)
    \/ \E w \in 1..MaxWorkers : PVCancel(w)
    \/ PVFlush
    \/ PVInvalidate
SpecPV == InitBuilt /\ [][NextPV]_vars

NextView ==
    \/ \E o \in ViewOutPoints, err \in BOOLEAN : ViewGetCoin(o, err)
    \/ \E o \in ViewOutPoints, c \in NewCoins, po \in BOOLEAN, err \in BOOLEAN :
            ViewAddCoin(o, c, po, err)
    \/ \E o \in ViewOutPoints, err \in BOOLEAN : ViewSpendCoin(o, err)
    \/ ViewFlush
    \/ \E o \in ViewOutPoints, sc \in Scripts, has \in BOOLEAN, a \in 1..MaxAmount :
            MutateTxSign(o, sc, has, a)
SpecView == InitBuilt /\ [][NextView]_vars

NextStartup ==
    \/ \E reindex, avoid, stopafter \in BOOLEAN :
         \E mark \in {"none", "FAILED", "FAILED_VALID"} :
            AppInit2Starts(reindex, avoid, stopafter, mark)
    \/ AppInit2Completes
    \/ RequestShutdown
    \/ ThreadImportReindex
    \/ ThreadImportFiles
    \/ ThreadImportWait
    \/ \E throws \in BOOLEAN : ThreadImportReconsider(throws)
    \/ ThreadImportMempool
    \/ \E ok \in BOOLEAN : ThreadImportActivate(ok)
    \/ \E throws \in BOOLEAN : ThreadImportReconsiderAgain(throws)
    \/ ThreadImportFinish
SpecStartup == InitBuilt /\ [][NextStartup]_vars

NextShutdown ==
    \/ \E reached \in {"none", "PV", "all"} : NodeStarts(reached)
    \/ \E w \in 1..MaxWorkers : WorkerStarts(w)
    \/ \E w \in 1..MaxWorkers : WorkerCommits(w)
    \/ \E w \in 1..MaxWorkers : WorkerQuits(w)
    \/ BeginShutdown
    \/ StopAllValidationThreads
    \/ WaitForAllValidationThreadsToStop
    \/ InterruptRest
    \/ StopAsync
    \/ ResetPV
    \/ FlushStateToDisk
    \/ ClearCache
    \/ StopRest
    \/ DeleteViews
SpecShutdown == InitBuilt /\ [][NextShutdown]_vars

NextAppInit ==
    \/ \E ok \in BOOLEAN : AppInit2Parameters(ok)
    \/ AppInit2CreatePV
    \/ \E fServer \in BOOLEAN, ok \in BOOLEAN : AppInit2Servers(fServer, ok)
    \/ AppInit2RateTable
    \/ \E hash \in RateDataHashes : AppInit2RateHash(hash)
    \/ \E ok \in BOOLEAN, reindex \in BOOLEAN, linked \in BOOLEAN :
           AppInit2VerifyWallet(ok, reindex, linked)
    \/ \E failAt \in 0..11, throws \in BOOLEAN : AppInit2LoadAttempt(failAt, throws)
    \/ \E fRet \in BOOLEAN : AppInit2LoadFailed(fRet)
    \/ AppInit2AfterLoad
    \/ \E ok \in BOOLEAN : AppInit2WalletAndNetwork(ok)
    \/ AppInit2CreateImport
    \/ \E ok \in BOOLEAN : AppInit2StartNode(ok)
    \/ AppInit2RequestShutdown
    \/ ShutdownCall
    \/ ShutdownStopAsync
    \/ \E survives \in BOOLEAN : ShutdownFlush(survives)
    \/ \E survives \in BOOLEAN : ShutdownDeleteViews(survives)
    \/ ShutdownReturns
SpecAppInit == InitRate /\ [][NextAppInit]_vars

NextValueOut ==
    \E vout \in ValueLists, overflowed \in Overflowed : CallGetValueOut(vout, overflowed)
SpecValueOut == InitBuilt /\ [][NextValueOut]_vars

NextWallet ==
    \/ \E op \in {"walletpassphrase", "walletlock", "getwalletinfo"},
          correct \in BOOLEAN, nSleepTime \in Timeouts :
           RpcEnter(op, correct, nSleepTime)
    \/ WalletPassphraseUnlock
    \/ WalletPassphraseLock
    \/ WalletPassphraseStore
    \/ WalletLockLock
    \/ WalletLockZero
    \/ GetWalletInfo
    \/ TimerFires
    \/ LockWalletZero
    \/ LockWalletLock
    \/ Tick
SpecWallet == InitBuilt /\ [][NextWallet]_vars

NextAdmission ==
    \/ \E n \in 0..MaxQueue : LoadMempool(n)
    \/ ImportWaits
    \/ AdmissionRequestShutdown
    \/ TxArrives
    \/ AdmissionTakes
    \/ \E where \in {"txCommitQ", "txDeferQ", "dropped"} : AdmissionPuts(where)
    \/ CommitThread
SpecAdmission == InitBuilt /\ [][NextAdmission]_vars

\* ThreadImport, the admission threads and the commit thread are running
\* threads: a step one of them can take is taken; nothing obliges a peer to
\* send a transaction
SpecAdmissionFair ==
    /\ SpecAdmission
    /\ WF_vars(ImportWaits)
    /\ WF_vars(AdmissionTakes)
    /\ WF_vars(\E where \in {"txCommitQ", "txDeferQ", "dropped"} : AdmissionPuts(where))
    /\ WF_vars(CommitThread)

NextRounding ==
    \/ \E nThreads \in ThreadCounts : RoundBegin(nThreads)
    \/ \E outcome \in Doubling : RoundDouble(outcome)
    \/ RoundDone
SpecRounding == InitBuilt /\ [][NextRounding]_vars

\* the loop runs in the calling thread, which goes on with its next step
SpecRoundingFair ==
    /\ SpecRounding
    /\ WF_vars(\E outcome \in Doubling : RoundDouble(outcome))
    /\ WF_vars(RoundDone)

(***************************************************************************)
(* Claims about GetInterest (SpecInterest)                                 *)
(***************************************************************************)
Returned == interest.pc = "returned"
Elapsed == interest.valuationHeight - interest.outputBlockHeight
EarlyReturn ==
    \/ interest.outputBlockHeight < 0
    \/ interest.valuationHeight < 0
    \/ interest.valuationHeight < interest.outputBlockHeight
\* the interest over p blocks rounds down to zero
RoundsToZero(nValue, p) ==
    BigLess(BigMul(nValue, BigSub(rateTable[p], rateTable[0])), rateTable[0])

\* C1 (as stated): GetInterest(v, hc, hv) >= v, with equality if and only if
\* hv <= hc.
C1_Original ==
    Returned =>
        /\ BigLeq(interest.nValue, interest.ret)
        /\ (interest.ret = interest.nValue
               <=> interest.valuationHeight <= interest.outputBlockHeight)

\* C1 (amended): for v in [0, MAX_MONEY], GetInterest(v, hc, hv) >= v; it equals
\* v exactly when hv <= hc, or a height is negative, or the interest
\* v * (R[p] - R[0]) / R[0] over p = min(MAX_PERIOD, hv - hc) blocks rounds down
\* to zero; it is strictly greater than v whenever 0 <= hc < hv and v >= 2^22.
C1_InterestNonNegative ==
    Returned /\ MoneyRange(interest.nValue) =>
        /\ ~IsNegative64(interest.ret)
        /\ BigLeq(interest.nValue, interest.ret)
        /\ (interest.ret = interest.nValue
               <=> (\/ EarlyReturn
                    \/ Elapsed <= 0
                    \/ RoundsToZero(interest.nValue, MinI(MAXINTERESTPERIOD, Elapsed))))
        /\ (~EarlyReturn /\ Elapsed > 0 /\ BigLeq(BigPow2(22), interest.nValue)
               => BigLess(interest.nValue, interest.ret))

C1_Witness ==
    /\ Returned
    /\ interest.outputBlockHeight >= 0
    /\ Elapsed = 1
    /\ interest.nValue = BigPow2(22)
    /\ interest.ret = BigAdd(interest.nValue, <<1>>)

\* C2 (as stated): for all heights h1 >= h0, GetInterest(v, h0, h1) - v =
\* GetInterest(v, 0, h1 - h0) - v.
C2_Original ==
    Returned /\ Elapsed >= 0 =>
        Sub64(interest.ret, interest.nValue)
            = Sub64(GetInterest(interest.nValue, 0, Elapsed).ret, interest.nValue)

\* C2 (amended): for all heights h1 >= h0 >= 0, GetInterest(v, h0, h1) - v =
\* GetInterest(v, 0, h1 - h0) - v: between non-negative heights the interest
\* depends only on the number of elapsed blocks.
C2_ElapsedOnly ==
    Returned /\ interest.outputBlockHeight >= 0 /\ Elapsed >= 0 =>
        Sub64(interest.ret, interest.nValue)
            = Sub64(GetInterest(interest.nValue, 0, Elapsed).ret, interest.nValue)

C2_Witness ==
    /\ Returned
    /\ interest.outputBlockHeight > 0
    /\ Elapsed = ONEDAY
    /\ interest.nValue = BigFromInt(COIN)
    /\ Sub64(interest.ret, interest.nValue) = BigFromInt(26420)

\* C3: for h1 >= h0, GetInterest(v, h0, h1) <= GetInterest(v, h0, h0 + MAX_PERIOD),
\* and for h1 - h0 >= MAX_PERIOD the value is exactly
\* GetInterest(v, h0, h0 + MAX_PERIOD), read at table index MAX_PERIOD.
C3_Saturates ==
    Returned /\ Elapsed >= 0 =>
        /\ BigLeq(interest.ret,
                  GetInterest(interest.nValue, interest.outputBlockHeight,
                              interest.outputBlockHeight + MAXINTERESTPERIOD).ret)
        /\ (Elapsed >= MAXINTERESTPERIOD =>
               /\ interest.ret
                    = GetInterest(interest.nValue, interest.outputBlockHeight,
                                  interest.outputBlockHeight + MAXINTERESTPERIOD).ret
               /\ (interest.indexed => interest.blocks = MAXINTERESTPERIOD))

C3_Witness ==
    /\ Returned
    /\ interest.outputBlockHeight >= 0
    /\ Elapsed = MAXINTERESTPERIOD + 1
    /\ interest.nValue = BigMul(BigFromInt(100), BigFromInt(COIN))
    /\ Sub64(interest.ret, interest.nValue) = BigFromInt(1012228346)

\* C4: for v in [0, MAX_MONEY] and p in [0, MAX_PERIOD], the 256-bit product
\* v * R[p] does not wrap, GetInterest(v, hc, hc + p) is floor(v * R[p] / R[0]),
\* which fits a signed 64-bit amount, and getRateForAmount(p, v) is that
\* quotient minus v.
C4_ExactQuotient ==
    Returned /\ ~EarlyReturn /\ Elapsed <= MAXINTERESTPERIOD
             /\ MoneyRange(interest.nValue) =>
        /\ Mul256(interest.nValue, rateTable[Elapsed])
             = BigMul(interest.nValue, rateTable[Elapsed])
        /\ GetLow64(BigDiv(Mul256(interest.nValue, rateTable[Elapsed]), rateTable[0]))
             = BigDiv(Mul256(interest.nValue, rateTable[Elapsed]), rateTable[0])
        /\ BigLeq(BigMul(interest.ret, rateTable[0]),
                  BigMul(interest.nValue, rateTable[Elapsed]))
        /\ BigLess(BigMul(interest.nValue, rateTable[Elapsed]),
                   BigMul(BigAdd(interest.ret, <<1>>), rateTable[0]))
        /\ ~IsNegative64(interest.ret)
        /\ BigLeq(interest.nValue, interest.ret)
        /\ getRateForAmount(Elapsed, interest.nValue)
             = BigSub(interest.ret, interest.nValue)

C4_Witness ==
    /\ Returned
    /\ interest.outputBlockHeight >= 0
    /\ Elapsed = MAXINTERESTPERIOD
    /\ interest.nValue = MAX_MONEY
    /\ BigLess(interest.nValue, interest.ret)

\* C5: with the valuation height below the creation height, or a negative
\* height, GetInterest returns v and does not index the rate table; otherwise
\* the index it reads is min(MAX_PERIOD, hv - hc), within [0, MAX_PERIOD].
C5_DefensiveReturn ==
    Returned =>
        IF EarlyReturn
        THEN interest.ret = interest.nValue /\ ~interest.indexed
        ELSE /\ interest.indexed
             /\ interest.blocks = MinI(MAXINTERESTPERIOD, Elapsed)
             /\ interest.blocks \in 0..MAXINTERESTPERIOD

C5_Witness ==
    /\ Returned
    /\ interest.outputBlockHeight < 0
    /\ interest.valuationHeight > 0
    /\ BigLeq(BigPow2(22), interest.nValue)
    /\ interest.ret = interest.nValue
    /\ ~interest.indexed

(***************************************************************************)
(* Claims about initRateTable (SpecRate)                                   *)
(***************************************************************************)
\* C6: after initRateTable, R[0] = 2^62 and R[i] = R[i-1] + (R[i-1] >> 22) for
\* every i in 1..MAX_PERIOD, the sum taken without wrapping the unsigned 64-bit
\* word, so each entry is strictly above the one before it; the loop ends with
\* index MAX_PERIOD written, and the entries GetInterest reads in this model
\* are the ones the loop wrote.
TwoTo62 == BigPow2(62)
TwoTo64 == BigPow2(64)

C6_RateTable ==
    /\ (initRate.pc # "start" => initRate.r0 = TwoTo62)
    /\ (initRate.pc # "start" /\ initRate.lastIdx = 0 => initRate.lastVal = initRate.r0)
    /\ (initRate.lastIdx >= 1 =>
           /\ initRate.lastVal
                = BigAdd(initRate.predVal, BigShr(initRate.predVal, 22))
           /\ BigLess(initRate.lastVal, TwoTo64)
           /\ BigLess(initRate.predVal, initRate.lastVal))
    /\ (initRate.pc # "start" /\ initRate.lastIdx \in SamplePeriods =>
           initRate.lastVal = rateTable[initRate.lastIdx])
    /\ (initRate.pc = "done" => initRate.lastIdx = MAXINTERESTPERIOD)
    /\ initRate.lastIdx \in 0..MAXINTERESTPERIOD

C6_Witness ==
    /\ initRate.pc = "loop"
    /\ initRate.lastIdx = ONEDAY
    /\ initRate.lastVal = rateTable[ONEDAY]
    /\ BigLess(initRate.predVal, initRate.lastVal)

(***************************************************************************)
(* Claims about block connection (SpecConnect)                             *)
(***************************************************************************)
Connected == connect.op = "ConnectBlock"

\* the inputs of the last connected transaction valued with GetInterest at its height
RECURSIVE InterestSum(_, _, _)
InterestSum(spent, h, k) ==
    IF k > Len(spent) THEN <<>>
    ELSE BigAdd(GetInterest(spent[k].nValue, spent[k].nHeight, h).ret,
                InterestSum(spent, h, k + 1))

RECURSIVE FaceSum(_, _)
FaceSum(vout, k) ==
    IF k > Len(vout) THEN <<>> ELSE BigAdd(vout[k], FaceSum(vout, k + 1))

\* S2: one coin created at height 0 funds one coin plus half the one-day
\* interest in the block at height ONEDAY
IsS2 ==
    /\ Connected
    /\ connect.h = ONEDAY
    /\ connect.spent = <<Coin(BigFromInt(COIN), 0, FALSE)>>
    /\ connect.vout = <<BigAdd(BigFromInt(COIN), HalfDayInterest)>>

\* C7: a non-coinbase transaction is connected at height h only if the sum of
\* GetInterest(coin.faceValue, coin.creationHeight, h) over its inputs is at
\* least the sum of its outputs' face values, and the fee is the difference; a
\* transaction whose outputs exceed that sum leaves the block unconnected; and
\* the S2 transaction is connected with a fee of the other half of the interest.
C7_Conservation ==
    Connected /\ HaveInputs(connect.spent) =>
        /\ (connect.result = "ok" =>
               /\ BigLeq(FaceSum(connect.vout, 1),
                         InterestSum(connect.spent, connect.h, 1))
               /\ connect.fee = BigSub(InterestSum(connect.spent, connect.h, 1),
                                       FaceSum(connect.vout, 1))
               /\ chain.height = connect.h)
        /\ (BigLess(InterestSum(connect.spent, connect.h, 1), FaceSum(connect.vout, 1)) =>
               /\ connect.result # "ok"
               /\ chain.height = connect.h - 1)
        /\ (IsS2 =>
               /\ connect.result = "ok"
               /\ BigAdd(connect.fee, HalfDayInterest)
                    = getRateForAmount(ONEDAY, BigFromInt(COIN)))

C7_Witness ==
    /\ IsS2
    /\ connect.result = "ok"
    /\ connect.fee = BigFromInt(13210)
    /\ chain.height = ONEDAY

\* C8: a block at height h spending a coinbase coin created at height hc is
\* rejected when h - hc < 20 and is not rejected for immaturity when
\* h - hc >= 20: the coinbase created at height 100 is refused at height 119 and
\* spent at height 120.
C8_Maturity ==
    Connected /\ HaveInputs(connect.spent) =>
        /\ ((\E i \in 1..Len(connect.spent) :
                 /\ connect.spent[i].fCoinBase
                 /\ connect.h - connect.spent[i].nHeight < 20) =>
               /\ connect.result = "bad-txns-premature-spend-of-coinbase"
               /\ chain.height = connect.h - 1)
        /\ ((\A i \in 1..Len(connect.spent) :
                 connect.spent[i].fCoinBase =>
                     connect.h - connect.spent[i].nHeight >= 20) =>
               connect.result # "bad-txns-premature-spend-of-coinbase")
        /\ (/\ connect.spent = <<Coin(BigFromInt(COIN), 100, TRUE)>>
            /\ connect.vout = <<BigFromInt(COIN)>>
            /\ connect.h = 120
            => connect.result = "ok")

C8_Witness ==
    /\ Connected
    /\ connect.h = 120
    /\ connect.spent = <<Coin(BigFromInt(COIN), 100, TRUE)>>
    /\ connect.result = "ok"
    /\ ~chain.coins["b"].present

\* C11: connecting a valid block and then disconnecting it with its undo data
\* leaves the UTXO cache as it was before the connect: every coin the block
\* spent is back with its face value, creation height and coinbase flag, the
\* coin it created is absent, and the tip is the one before.
C11_RoundTrip ==
    [][connect'.op = "ConnectBlock" /\ connect'.result = "ok" =>
          /\ chain'.undo.present
          /\ DisconnectedChain(chain').coins = chain.coins
          /\ DisconnectedChain(chain').height = chain.height
          /\ \A i \in 1..Len(connect'.vin) :
                 /\ ~chain'.coins[connect'.vin[i]].present \/ connect'.vin[i] = "n"
                 /\ DisconnectedChain(chain').coins[connect'.vin[i]] = connect'.spent[i]]_vars

C11_Witness ==
    /\ connect.op = "DisconnectBlock"
    /\ connect.h = 120
    /\ chain.height = 119
    /\ chain.coins["b"] = Coin(BigFromInt(COIN), 100, TRUE)
    /\ ~chain.coins["n"].present
    /\ ~chain.undo.present

(***************************************************************************)
(* Claims about chain activation (SpecReorg)                               *)
(***************************************************************************)
\* the UTXO set of a chain connected alone from genesis, block by block
RECURSIVE CoinsOfChain(_, _)
CoinsOfChain(active, k) ==
    IF k = 0 THEN GenesisCoins
    ELSE ConnectTip(CoinsOfChain(active, k - 1), active[k], k).coins

\* C12: a reorganisation (disconnect to the fork point, connect up to the new
\* tip) ends on the most-work valid tip with the UTXO set that connecting that
\* chain alone from genesis gives, and at every step in between the UTXO set is
\* that of the active chain; once A = G -> a1 -> a2 and the heavier
\* B = G -> b1 -> b2 -> b3 have both been submitted, in any order, the tip is b3
\* and the UTXO set is that of B alone.
C12_ReorgEquivalence ==
    /\ reorg.coins = CoinsOfChain(reorg.active, Len(reorg.active))
    /\ (reorg.pc = "idle" =>
           /\ TipOf(reorg.active)
                = FindMostWorkChain(reorg.received, reorg.failed, reorg.chainWork)
           /\ \A i \in 1..Len(reorg.received) :
                  \/ BigLeq(reorg.chainWork[reorg.received[i]],
                            reorg.chainWork[TipOf(reorg.active)])
                  \/ \E k \in 1..Len(ChainTo(reorg.received[i])) :
                         ChainTo(reorg.received[i])[k] \in reorg.failed
           /\ ({"a2", "b3"} \subseteq {reorg.received[i] : i \in 1..Len(reorg.received)} =>
                  /\ reorg.active = <<"b1", "b2", "b3">>
                  /\ reorg.coins = CoinsOfChain(<<"b1", "b2", "b3">>, 3)))

C12_Witness ==
    /\ reorg.pc = "idle"
    /\ Len(reorg.received) = 5
    /\ SubSeq(reorg.received, 1, 2) = <<"a1", "a2">>
    /\ reorg.received[5] = "b3"
    /\ reorg.disconnected = 2
    /\ reorg.active = <<"b1", "b2", "b3">>
    /\ reorg.coins["b3"] = Coin(BigFromInt(COIN), 3, FALSE)
    /\ ~reorg.coins["g"].present /\ ~reorg.coins["a2"].present

(***************************************************************************)
(* Claims about parallel validation.                                        *)
(***************************************************************************)
Losers == {b \in {"c1", "c2"} : pv.outcome[b] \in {"cancelled", "abandoned"}}
Winners == {b \in {"c1", "c2"} : pv.outcome[b] = "committed"}

\* C13: of the two equal-work children c1 and c2 of the tip, validated at the
\* same time by two workers, at most one is ever the tip and, once both workers
\* are back without a coordinator stop, exactly one is: the one whose commit
\* comes first in the commit order.  The other lost to that commit, is not in
\* the active chain and keeps status VALID, and invalidating the winner while
\* it is the tip makes the loser the tip.
C13_ExactlyOneWinner ==
    /\ [](/\ Cardinality(Winners) <= 1
          /\ \A b \in Winners : pv.active # <<>> /\ pv.active[1] = b
          /\ \A b \in Losers :
                /\ pv.status[b] = "VALID"
                /\ Winners = {"c1", "c2"} \ {b}
                /\ \A i \in 1..Len(pv.active) : pv.active[i] # b
                /\ pv.log[1] = <<"connect", CHOOSE w \in Winners : TRUE>>)
    /\ [][\A l \in Losers :
            LET w == CHOOSE b \in {"c1", "c2"} : b # l
            IN  pv.active = <<w>> /\ pv'.outcome[w] = "invalidated" =>
                    /\ pv'.active = <<l>>
                    /\ pv'.status[w] = "FAILED"
                    /\ pv'.status[l] = "VALID"
                    /\ pv'.coins = ConnectTxs(PVGenesisCoins, PVBlocks[l].txs, 1, 1).coins]_vars
C13_Witness ==
    /\ pv.event = <<"invalidate", 0>>
    /\ pv.received = <<"c1", "bad", "c2">>
    /\ pv.log = <<<<"connect", "c1">>, <<"disconnect", "c1">>, <<"connect", "c2">>>>
    /\ pv.active = <<"c2">>
    /\ pv.status = [b \in DOMAIN PVBlocks |->
                      IF b = "c2" THEN "VALID" ELSE IF b = "d1" THEN "none" ELSE "FAILED"]

\* the chain that a commit order leaves: a connect appends, a disconnect removes
\* the tip
RECURSIVE ChainOfLog(_, _)
ChainOfLog(log, k) ==
    IF k = 0 THEN <<>>
    ELSE IF log[k][1] = "connect" THEN Append(ChainOfLog(log, k - 1), log[k][2])
         ELSE SubSeq(ChainOfLog(log, k - 1), 1, Len(ChainOfLog(log, k - 1)) - 1)

\* the first k blocks of a chain connected whole and in order from genesis:
\* whether every one connects, and the resulting UTXO set
RECURSIVE PVCoinsOf(_, _)
PVCoinsOf(active, k) ==
    IF k = 0 THEN [ok |-> TRUE, coins |-> PVGenesisCoins]
    ELSE LET before == PVCoinsOf(active, k - 1)
             r == ConnectTxs(before.coins, PVBlocks[active[k]].txs, 1, k)
         IN  [ok |-> before.ok /\ r.ok, coins |-> r.coins]

Committing == {w \in 1..MaxWorkers : pv.worker[w].at \in {"commitCoins", "commitTip"}}

\* C14: at most one worker is committing at a time and it holds the mutex; the
\* active chain is the chain of the single commit order and grows by whole
\* commits only; whenever no commit is in progress the shared UTXO set is the
\* result of connecting exactly the committed blocks in order, every one of them
\* whole, and no block of a cancelled, failed or abandoned worker is in it.
C14_CommitOrder ==
    /\ [](/\ Cardinality(Committing) <= 1
          /\ \A w \in Committing : pv.mutex = w
          /\ pv.mutex = 0 => Committing = {}
          /\ pv.active = ChainOfLog(pv.log, Len(pv.log))
          /\ \A i \in 1..Len(pv.active) : pv.outcome[pv.active[i]] = "committed"
          /\ \A i, j \in 1..Len(pv.active) : pv.active[i] = pv.active[j] => i = j
          /\ pv.mutex = 0 =>
                LET whole == PVCoinsOf(pv.active, Len(pv.active))
                IN  whole.ok /\ pv.coins = whole.coins)
    /\ [][/\ Len(pv'.log) >= Len(pv.log)
          /\ SubSeq(pv'.log, 1, Len(pv.log)) = pv.log
          /\ pv'.event[1] # "invalidate" =>
                /\ Len(pv'.active) >= Len(pv.active)
                /\ SubSeq(pv'.active, 1, Len(pv.active)) = pv.active]_vars
C14_Witness ==
    /\ pv.mutex = 0
    /\ pv.event[1] = "commitTip"
    /\ pv.active = <<"c1", "d1">>
    /\ pv.log = <<<<"connect", "c1">>, <<"connect", "d1">>>>
    /\ pv.outcome["c2"] = "abandoned"
    /\ pv.outcome["bad"] = "failed"
    /\ pv.coins["d1a"] = Coin(BigFromInt(COIN), 2, FALSE)
    /\ ~pv.coins["c2b"].present /\ ~pv.coins["ba"].present /\ ~pv.coins["c1b"].present

WorkerEvents == {"next", "lookup", "check", "cancel", "cancelled", "stopped", "failed",
                 "abandoned"}

C17_FlushEquivalence ==
    /\ [](\A o \in ViewOutPoints : Lookup(view.cache, view.base, o) = view.direct[o])
    /\ [][view'.last.kind = "Flush" =>
            /\ view'.base = view.direct
            /\ view'.direct = view.direct
            /\ view'.cache = EmptyCache
            /\ \A o \in ViewOutPoints :
                  Lookup(view'.cache, view'.base, o) = Lookup(view.cache, view.base, o)
            /\ \A o \in view.dropped : o \notin view'.written /\ view'.base[o] = view.base[o]
            /\ \A o \in ViewOutPoints \ view'.written : view'.base[o] = view.base[o]]_vars
C17_Witness ==
    /\ view.last = [kind |-> "Flush", dropped |-> {"q"}]
    /\ view.written = {"p"}
    /\ view.base = EmptyView
    /\ view.direct = EmptyView
    /\ view.cache = EmptyCache

\* C18: a read of the database that fails never comes back from the catcher:
\* the process is aborted and nothing runs after it; a GetCoin that returns
\* reports the coin exactly as the cache or, beneath it, the database holds it,
\* "not found" only when there is none.
C18_ReadFailureAborts ==
    /\ [](/\ view.last.kind \in {"GetCoin", "AddCoin", "SpendCoin"} =>
                /\ view.last.readFailed <=> ~view.alive
                /\ view.last.returned <=> view.alive
          /\ view.last.kind \notin {"GetCoin", "AddCoin", "SpendCoin"} => view.alive)
    /\ [][/\ view.alive
          /\ view'.last.kind = "GetCoin" /\ view'.alive =>
                /\ view'.last.coin = Lookup(view.cache, view.base, view'.last.out)
                /\ view'.last.found <=> ~Lookup(view.cache, view.base, view'.last.out).spent
                /\ ~view.cache[view'.last.out].in =>
                      view'.last.coin = view.base[view'.last.out]
                /\ view'.base = view.base]_vars
C18_Witness ==
    /\ ~view.alive
    /\ view.last = [kind |-> "GetCoin", out |-> "p", readFailed |-> TRUE, returned |-> FALSE]
    /\ ~view.cache["p"].in
    /\ view.base["p"] = ViewCoin(1, 1, "s")

(***************************************************************************)
(* Claims about startup and shutdown.                                       *)
(***************************************************************************)
NormalOperation == startup.pc = "done"

C20_QuiescentBeforeFlush ==
    /\ shutdown.flushes > 0 =>
          /\ shutdown.PV = "destroyed" /\ ~shutdown.accepting
          /\ Len(shutdown.done) >= 6
          /\ SubSeq(shutdown.done, 1, 6) =
                <<"StopAllValidationThreads", "WaitForAllValidationThreadsToStop",
                  "InterruptRest", "StopAsync", "ResetPV", "FlushStateToDisk">>
          /\ shutdown.flushedOver = {}
          /\ shutdown.after = {}
          /\ Running = {}
          /\ shutdown.base = shutdown.tip
    /\ shutdown.stage = "exited" =>
          /\ Running = {}
          /\ shutdown.base = shutdown.tip \/ shutdown.PV = "null"
          /\ shutdown.PV = "destroyed" => shutdown.flushes = 2 \/ shutdown.tip = 0
C20_Witness ==
    /\ shutdown.stage = "stopping"
    /\ shutdown.flushes = 1
    /\ shutdown.tip = 1 /\ shutdown.base = 1
    /\ shutdown.done = <<"StopAllValidationThreads", "WaitForAllValidationThreadsToStop",
                         "InterruptRest", "StopAsync", "ResetPV", "FlushStateToDisk">>
    /\ Running = {}
    /\ shutdown.cancelled = {2}

(***************************************************************************)
(* Claims about AppInit2                                                   *)
(***************************************************************************)
\* the steps that load the block index, verify or connect blocks, or create
\* the import thread
RateGuarded == {"LoadBlockIndex", "InitBlockIndex", "VerifyDB", "ThreadImport"}

\* C21: the rate table is built and the hash of its dump asserted equal to
\* -753007581 before the block index is loaded, before any block is verified
\* or connected and before the import thread is created; when the hash
\* differs, initialisation reaches none of those steps.
C21_RateHashFirst ==
    /\ appinit.done \cap RateGuarded # {} =>
          /\ initRate = RateTableBuilt
          /\ {"initRateTable", "rateHash"} \subseteq appinit.done
          /\ appinit.hashed
          /\ appinit.rateDataHash = RATE_DATA_HASH
    /\ appinit.hashed /\ appinit.rateDataHash # RATE_DATA_HASH =>
          /\ appinit.outcome = "aborted"
          /\ appinit.done \cap RateGuarded = {}
C21_Witness ==
    /\ RateGuarded \subseteq appinit.done
    /\ appinit.outcome = "true"

\* the steps of AppInit2 that follow the load loop
PastLoad == {"TxAdmission", "Network", "ThreadImport", "StartNode"}

\* C28: the load loop makes at most two attempts; a failed attempt without
\* reindex ends initialisation (rebuild declined) or sets fReindex and
\* retries once; a failed attempt with reindex ends initialisation with the
\* load error; a wrong genesis block ends it at once, with no rebuild
\* offered; AppInit2 goes past the loop only after an attempt that completed
\* every step, VerifyDB included.
C28_LoadLoop ==
    /\ [](/\ appinit.attempts <= 2
          /\ appinit.offered <= 1
          /\ appinit.attempts = 2 => appinit.offered = 1 /\ appinit.fReset
          /\ appinit.last = "genesis" =>
                /\ appinit.outcome = "false"
                /\ appinit.error = "genesis"
                /\ appinit.offered = appinit.attempts - 1
          /\ appinit.done \cap PastLoad # {} =>
                /\ appinit.fLoaded
                /\ appinit.last = "loaded"
                /\ appinit.ran = StepsThrough(LoadSteps(appinit.fReset), 11)
                /\ "VerifyDB" \in appinit.ran)
    /\ [][appinit.pc = "loadFailed" /\ appinit'.pc # "loadFailed" =>
            IF appinit.fReset
            THEN appinit'.outcome = "false" /\ appinit'.error = "strLoadError"
            ELSE \/ appinit'.outcome = "false" /\ appinit'.error = "declined"
                 \/ /\ appinit'.pc = "load"
                    /\ appinit'.fReindex
                    /\ appinit'.outcome = "running"]_vars
C28_Witness ==
    /\ appinit.attempts = 2
    /\ appinit.fLoaded
    /\ appinit.outcome = "true"

\* C27: Shutdown is safe after AppInit2 failed at any point and when called
\* more than once: it flushes and frees only views that are live, leaves all
\* five pointers null on completion, and a later Shutdown flushes nothing.
C27_Original ==
    /\ ~appinit.sd.undefined
    /\ appinit.sd.lateFlushes = 0
    /\ appinit.sd.runs > 0 /\ appinit.sd.holder = "none" => appinit.ptr = NullPointers

(***************************************************************************)
(* Claims about the wait for the admission queues (SpecAdmissionFair)      *)
(***************************************************************************)
\* C29: the wait for the admission queues does not last forever: under every
\* interleaving the loop is left, the queues having been cleared once more
\* than 120 iterations have passed, and ThreadImport goes on to
\* ActivateBestChain (read with the shutdown that line 631 provides for: once
\* shutdown is requested nothing more is asked).
C29_Original ==
    Waiting ~> (admission.pc = "ActivateBestChain" \/ admission.fRequestShutdown)

(***************************************************************************)
(* Claims about the rounding loop (SpecRoundingFair)                       *)
(***************************************************************************)
\* p is the smallest power of two that is >= n
SmallestPowerOfTwo(p, n) ==
    \E k \in 0..(2 * LimbBits) :
        /\ p = TwoTo(k)
        /\ p >= n
        /\ k > 0 => TwoTo(k - 1) < n

\* up to 2^30 the loop never overflows, is over after at most 30 doublings
\* and hands over the smallest power of two
RoundsUpTo2Pow30 ==
    rounding.nThreads <= TwoTo30 =>
        /\ ~rounding.overflowed
        /\ rounding.doublings <= 2 * LimbBits
        /\ rounding.pc = "while" =>
              /\ rounding.newThreadNumber >= 1
              /\ rounding.newThreadNumber = TwoTo(rounding.doublings)
        /\ rounding.pc = "pattern_search" =>
              SmallestPowerOfTwo(rounding.newThreadNumber, rounding.nThreads)

\* beyond 2^30 pattern_search is reached, if at all, only after the 31st
\* doubling has overflowed
OverflowsBeyond2Pow30 ==
    rounding.nThreads > TwoTo30 =>
        /\ rounding.doublings > 2 * LimbBits => rounding.overflowed
        /\ rounding.pc \in {"pattern_search", "aborted"} => rounding.overflowed

\* C30 (amended): for every nThreads with 1 <= nThreads <= 2^30 the rounding
\* loop terminates, after at most 30 doublings none of which overflows, and
\* hands pattern_search the smallest power of two that is >= nThreads, a
\* power of two being passed unchanged; for a larger nThreads the 31st
\* doubling overflows the int before anything is handed over.
C30_Rounding ==
    /\ [](RoundsUpTo2Pow30 /\ OverflowsBeyond2Pow30)
    /\ (rounding.pc = "while" /\ rounding.nThreads <= TwoTo30)
          ~> (rounding.pc = "pattern_search")

\* 2^30, the largest count the loop rounds, is passed unchanged after 30
\* doublings
C30_Witness ==
    /\ rounding.pc = "pattern_search"
    /\ rounding.nThreads = TwoTo30
    /\ rounding.newThreadNumber = TwoTo30
    /\ rounding.doublings = 2 * LimbBits

\* C30 (as stated): for every nThreads >= 1 that fits an int the rounding loop terminates
\* (it does not abort, and it is over within the 31 doublings that lead from 1
\* past every int) and hands pattern_search the smallest power of two that is
\* >= nThreads, a power of two being passed unchanged.
C30_Original ==
    rounding.nThreads >= 1 =>
        /\ rounding.pc # "aborted"
        /\ rounding.doublings <= 2 * LimbBits + 1
        /\ rounding.pc = "pattern_search" =>
              SmallestPowerOfTwo(rounding.newThreadNumber, rounding.nThreads)

RECURSIVE ExactSum(_, _)
ExactSum(vout, k) == IF k = 0 THEN <<>> ELSE BigAdd(ExactSum(vout, k - 1), vout[k])

\* every output value and every running partial sum lies in [0, MAX_MONEY]
AllInRange(vout) ==
    /\ \A k \in 1..Len(vout) : MoneyRange(vout[k])
    /\ \A k \in 1..Len(vout) : BigLeq(ExactSum(vout, k), MAX_MONEY)

\* C23: GetValueOut returns the sum of the output values when every value and
\* every running partial sum is in [0, MAX_MONEY] and throws otherwise; it
\* never returns a value outside [0, MAX_MONEY], whatever an overflowing
\* addition leaves in the running sum.
C23_ValueOut ==
    valueOut.op = "GetValueOut" =>
        /\ AllInRange(valueOut.vout) =>
              /\ ~valueOut.thrown
              /\ ~valueOut.overflow
              /\ valueOut.nValueOut = ExactSum(valueOut.vout, Len(valueOut.vout))
        /\ ~AllInRange(valueOut.vout) => valueOut.thrown
        /\ ~valueOut.thrown => MoneyRange(valueOut.nValueOut)
C23_Witness ==
    /\ valueOut.op = "GetValueOut"
    /\ valueOut.overflow
    /\ valueOut.thrown
    /\ MoneyRange(valueOut.nValueOut)
    /\ \E k \in 1..Len(valueOut.vout) : IsNegative64(valueOut.vout[k])

(***************************************************************************)
(* Claims about the wallet lock (SpecWallet)                               *)
(***************************************************************************)
\* C24: a walletpassphrase call made while the wallet is unlocked replaces the
\* pending re-lock: a timer that had not expired when a later successful
\* walletpassphrase call was made never locks the wallet, under every
\* interleaving of the handlers with the LockWallet callback.
C24_Original == wallet.timerLocked \cap wallet.overtaken = {}

\* C25: whenever the wallet is locked and no handler holds cs_wallet,
\* nWalletUnlockTime is 0, and getwalletinfo never reports a non-zero
\* unlocked_until for a locked wallet.
C25_Original ==
    /\ wallet.cs_wallet = "none" /\ wallet.locked => wallet.nWalletUnlockTime = 0
    /\ wallet.info.seen /\ wallet.info.locked => wallet.info.unlocked_until = 0

(***************************************************************************)
(* Claims about GetBlockSize (SpecHeader)                                  *)
(***************************************************************************)
\* C26 as stated: GetBlockSize returns the serialized size of the block's
\* current contents.
C26_Original ==
    hashCall.op = "GetBlockSize" => hashCall.ret = GetSerializeSize(hashCall.before)

\* C26: GetBlockSize returns the serialized size the block had at the first
\* GetBlockSize call since its construction or last SetNull: the current size
\* when the transactions are the same as then, a stale one when transactions
\* were appended or removed in between; nBlockSize is non-zero exactly from
\* that first call until the next SetNull.
C26_BlockSize ==
    /\ hashRef.sized <=> block.nBlockSize # 0
    /\ hashRef.sized => block.nBlockSize = GetSerializeSize([block EXCEPT !.vtx = hashRef.vtx])
    /\ hashCall.op = "GetBlockSize" =>
          /\ hashRef.sized
          /\ hashCall.ret = block.nBlockSize
          /\ block.vtx = hashCall.before.vtx
          /\ hashRef.vtx = block.vtx => hashCall.ret = GetSerializeSize(block)
C26_Witness ==
    /\ hashCall.op = "GetBlockSize"
    /\ hashCall.before.nBlockSize # 0
    /\ Len(block.vtx) # Len(hashRef.vtx)
    /\ hashCall.ret # GetSerializeSize(block)

(***************************************************************************)
(* Claims about header hashing (SpecHeader)                                *)
(***************************************************************************)
\* C9: GetHash is a function of the six serialized header fields alone: it is
\* the Blake3 hash of those fields, it equals the first hash taken whenever the
\* six fields equal the ones hashed then, whatever the transactions, flags,
\* cached size and earlier GetHash / GetMidHash / FindBestPatternHash calls;
\* and the call leaves the block, its header included, as it was.
C9_HashPure ==
    hashCall.op = "GetHash" =>
        /\ hashCall.ret = HashBlake3(HeaderBytes(GetBlockHeader(hashCall.before)))
        /\ (hashRef.set /\ HeaderBytes(hashCall.before) = hashRef.fields =>
               hashCall.ret = hashRef.hash)
        /\ block = hashCall.before

C9_Witness ==
    /\ hashCall.op = "GetHash"
    /\ hashRef.set
    /\ HeaderBytes(block) = hashRef.fields
    /\ hashCall.ret = hashRef.hash
    /\ Len(block.vtx) > 0
    /\ block.nBlockSize > 0
    /\ block.fChecked
    /\ block.nNonce = 1

(***************************************************************************)
(* Claims about chain work (SpecWork)                                      *)
(***************************************************************************)
WorkReturned == work.pc = "returned"
ValidTarget == ~work.fNegative /\ ~work.fOverflow /\ work.bnTarget # <<>>
TwoTo256 == BigPow2(256)

\* C10: for a target t that is non-negative, not overflowing and non-zero,
\* GetWorkForDifficultyBits returns floor(2^256 / (t + 1)), which is at least 1;
\* for a negative, overflowing or zero target it returns 0.
C10_Work ==
    WorkReturned =>
        IF ValidTarget
        THEN /\ work.ret = BigDiv(TwoTo256, BigAdd(work.bnTarget, <<1>>))
             /\ BigLeq(BigMul(work.ret, BigAdd(work.bnTarget, <<1>>)), TwoTo256)
             /\ BigLess(TwoTo256,
                        BigMul(BigAdd(work.ret, <<1>>), BigAdd(work.bnTarget, <<1>>)))
             /\ BigLeq(<<1>>, work.ret)
        ELSE work.ret = <<>>

C10_Witness ==
    /\ WorkReturned
    /\ ValidTarget
    /\ work.nBits = CompactBits(29, 0, 65535)
    /\ work.bnTarget = BigShl(BigFromInt(65535), 208)
    /\ BigLess(BigPow2(32), work.ret)

====
